---- MODULE Spec2Model ----
(***************************************************************************)
(* A model of the update detection of APM (src/apm.py): the version        *)
(* validation, normalisation and comparison functions of                   *)
(* AndroidPackageManager and the update scan get_available_updates.        *)
(*                                                                         *)
(* A Python str is modelled as a sequence of one-character strings, so     *)
(* "1.0" is <<"1", ".", "0">>.  Where the code has a str or None, or a str  *)
(* or an exception, None and the exception are one-element sequences whose *)
(* element is no character, so that every such value is a sequence.        *)
(***************************************************************************)
EXTENDS Integers, Sequences, FiniteSets, TLC

None == << "None" >>

(***************************************************************************)
(* Characters.  AsciiOrder lists the characters the model uses in code     *)
(* point order; Python compares str values by code point.                  *)
(***************************************************************************)
AsciiOrder ==
    << "\n", " ", "(", ")", "-", ".",
       "0", "1", "2", "3", "4", "5", "6", "7", "8", "9", ":", "=",
       "A", "B", "C", "E", "N", "O", "T", "V", "_",
       "a", "b", "c", "d", "e", "f", "g", "h", "i", "j", "k", "l", "m",
       "n", "o", "p", "q", "r", "s", "t", "u", "v", "w", "x", "y", "z" >>

Chars == { AsciiOrder[i] : i \in 1..Len(AsciiOrder) }

Ord == [ c \in Chars |-> CHOOSE i \in 1..Len(AsciiOrder) : AsciiOrder[i] = c ]

DigitChars == { "0", "1", "2", "3", "4", "5", "6", "7", "8", "9" }

DigitValue ==
    [ c \in DigitChars |->
        CASE c = "0" -> 0 [] c = "1" -> 1 [] c = "2" -> 2 [] c = "3" -> 3
          [] c = "4" -> 4 [] c = "5" -> 5 [] c = "6" -> 6 [] c = "7" -> 7
          [] c = "8" -> 8 [] c = "9" -> 9 ]

UpperChars == { "A", "B", "C", "E", "N", "O", "T", "V" }

LowerChars ==
    { "a", "b", "c", "d", "e", "f", "g", "h", "i", "j", "k", "l", "m",
      "n", "o", "p", "q", "r", "s", "t", "u", "v", "w", "x", "y", "z" }

SpaceChars == { " ", "\n" }

\* The characters matched by \w in a Python regular expression.
WordChars == DigitChars \cup UpperChars \cup LowerChars \cup { "_" }

\* str.lower() on one character.
LowerChar(c) ==
    CASE c = "A" -> "a" [] c = "B" -> "b" [] c = "C" -> "c" [] c = "E" -> "e"
      [] c = "N" -> "n" [] c = "O" -> "o" [] c = "T" -> "t" [] c = "V" -> "v"
      [] OTHER -> c

\* str.lower()
str_lower(s) == [ i \in 1..Len(s) |-> LowerChar(s[i]) ]

\* The str operator `t in s`: t occurs in s as a substring.
str_contains(s, t) ==
    \E i \in 0..(Len(s) - Len(t)) :
        /\ t = << >> \/ s[i + 1] = t[1]
        /\ SubSeq(s, i + 1, i + Len(t)) = t

\* any(t in s for t in patterns)
contains_any(s, patterns) == \E t \in patterns : str_contains(s, t)

\* any(c.isdigit() for c in s)
any_digit(s) == \E i \in 1..Len(s) : s[i] \in DigitChars

\* s[k:], 0-based as in Python.
str_from(s, k) == SubSeq(s, k + 1, Len(s))

\* The str comparison a < b: by code point, a proper prefix being less.
RECURSIVE str_less(_, _)
str_less(a, b) ==
    IF b = << >> THEN FALSE
    ELSE IF a = << >> THEN TRUE
    ELSE IF a[1] # b[1] THEN Ord[a[1]] < Ord[b[1]]
    ELSE str_less(Tail(a), Tail(b))

\* The list comparison x > y of two lists of str.
RECURSIVE list_greater(_, _)
list_greater(x, y) ==
    IF x = << >> THEN FALSE
    ELSE IF y = << >> THEN TRUE
    ELSE IF x[1] # y[1] THEN str_less(y[1], x[1])
    ELSE list_greater(Tail(x), Tail(y))

\* str.split(sep) for a one-character separator: the pieces between the
\* separators, empty pieces included.
RECURSIVE str_split(_, _)
str_split(s, sep) ==
    IF \A i \in 1..Len(s) : s[i] # sep THEN << s >>
    ELSE LET k == CHOOSE i \in 1..Len(s) :
                      s[i] = sep /\ \A j \in 1..(i - 1) : s[j] # sep
         IN  << SubSeq(s, 1, k - 1) >> \o str_split(str_from(s, k), sep)

\* The length of the leading run of digits of s: what re.match(r'(\d+)', s)
\* matches (0 when it does not match).
RECURSIVE digit_run(_)
digit_run(s) ==
    IF s # << >> /\ s[1] \in DigitChars THEN 1 + digit_run(Tail(s)) ELSE 0

\* int(d) for a non-empty str of digits.
RECURSIVE digits_to_int(_)
digits_to_int(d) ==
    IF d = << >> THEN 0
    ELSE 10 * digits_to_int(SubSeq(d, 1, Len(d) - 1)) + DigitValue[d[Len(d)]]

(***************************************************************************)
(* is_valid_version                                                        *)
(***************************************************************************)
invalid_patterns ==
    { << "o", "n", "l", "y" >>,
      << "l", "a", "t", "e", "s", "t" >>,
      << "c", "u", "r", "r", "e", "n", "t" >>,
      << "v", "e", "r", "s", "i", "o", "n" >>,
      << "u", "n", "k", "n", "o", "w", "n" >>,
      << "n", "u", "l", "l" >>,
      << "n", "o", "n", "e" >>,
      << "d", "e", "s", "c", "r", "i", "p", "t", "i", "o", "n" >>,
      << "n", "a", "m", "e" >>,
      << "t", "i", "t", "l", "e" >>,
      << "a", "p", "p" >>,
      << "p", "a", "c", "k", "a", "g", "e" >>,
      << "i", "n", "s", "t", "a", "l", "l" >>,
      << "d", "o", "w", "n", "l", "o", "a", "d" >>,
      << "f", "i", "l", "e" >>,
      << "u", "r", "l" >>,
      << "h", "t", "t", "p" >>,
      << "w", "w", "w" >>,
      << "c", "o", "m" >>,
      << "o", "r", "g" >> }

MinVersionLen == 2

MaxVersionLen == 20

\* is_valid_version without the upper limit on the length.
is_valid_version_unlimited(version_str) ==
    IF version_str = None \/ version_str = << >> \/ Len(version_str) < MinVersionLen
    THEN FALSE
    ELSE IF ~ any_digit(version_str) THEN FALSE
    ELSE IF contains_any(str_lower(version_str), invalid_patterns) THEN FALSE
    ELSE TRUE

is_valid_version(version_str) ==
    IF version_str = None \/ version_str = << >> \/ Len(version_str) < MinVersionLen
    THEN FALSE
    ELSE IF ~ any_digit(version_str) THEN FALSE
    ELSE IF contains_any(str_lower(version_str), invalid_patterns) THEN FALSE
    ELSE IF Len(version_str) > MaxVersionLen THEN FALSE
    ELSE TRUE

(***************************************************************************)
(* normalize_version, split_version_parts, compare_versions_semantic       *)
(***************************************************************************)
\* str.lstrip('v'): every leading "v" is removed.
RECURSIVE lstrip_v(_)
lstrip_v(s) ==
    IF s # << >> /\ s[1] = "v" THEN lstrip_v(Tail(s)) ELSE s

\* re.sub(r'[-_]+', '.', s): each maximal run of "-" and "_" becomes one ".".
RECURSIVE sub_separators(_)
sub_separators(s) ==
    IF s = << >> THEN << >>
    ELSE IF s[1] \in { "-", "_" }
    THEN IF Len(s) > 1 /\ s[2] \in { "-", "_" }
         THEN sub_separators(Tail(s))
         ELSE << "." >> \o sub_separators(Tail(s))
    ELSE << s[1] >> \o sub_separators(Tail(s))

normalize_version(version) == sub_separators(lstrip_v(version))

\* The loop body of split_version_parts without the append of the text that
\* follows a digit run.
RECURSIVE split_parts_loop_digits_only(_, _, _)
split_parts_loop_digits_only(parts, numeric, text) ==
    IF parts = << >> THEN [ numeric |-> numeric, text |-> text ]
    ELSE IF digit_run(parts[1]) > 0
    THEN split_parts_loop_digits_only(Tail(parts),
             Append(numeric, digits_to_int(SubSeq(parts[1], 1, digit_run(parts[1])))),
             text)
    ELSE split_parts_loop_digits_only(Tail(parts), numeric, Append(text, parts[1]))

\* The loop body of split_version_parts, folded over the segments.
RECURSIVE split_parts_loop(_, _, _)
split_parts_loop(parts, numeric, text) ==
    IF parts = << >> THEN [ numeric |-> numeric, text |-> text ]
    ELSE LET part      == parts[1]
             n         == digit_run(part)
             remaining == str_from(part, n)
         IN  IF n > 0
             THEN split_parts_loop(Tail(parts),
                      Append(numeric, digits_to_int(SubSeq(part, 1, n))),
                      IF remaining # << >> THEN Append(text, remaining) ELSE text)
             ELSE split_parts_loop(Tail(parts), numeric, Append(text, part))

split_version_parts(version) ==
    split_parts_loop(str_split(version, "."), << >>, << >>)

Max(a, b) == IF a >= b THEN a ELSE b

\* The numeric loop over the positions both lists have, without the padding
\* of the shorter one.
RECURSIVE compare_numeric_unpadded(_, _, _)
compare_numeric_unpadded(l_numeric, c_numeric, i) ==
    IF i > Len(l_numeric) \/ i > Len(c_numeric) THEN "equal"
    ELSE IF l_numeric[i] > c_numeric[i] THEN "newer"
    ELSE IF l_numeric[i] < c_numeric[i] THEN "older"
    ELSE compare_numeric_unpadded(l_numeric, c_numeric, i + 1)

\* The numeric loop of compare_versions_semantic from index i (1-based):
\* "newer", "older", or "equal" when the loop ends without returning.
\* The numeric loop with the two answers exchanged.
RECURSIVE compare_numeric_reversed(_, _, _)
compare_numeric_reversed(l_numeric, c_numeric, i) ==
    IF i > Max(Len(l_numeric), Len(c_numeric)) THEN "equal"
    ELSE LET l_part == IF i <= Len(l_numeric) THEN l_numeric[i] ELSE 0
             c_part == IF i <= Len(c_numeric) THEN c_numeric[i] ELSE 0
         IN  IF l_part > c_part THEN "older"
             ELSE IF l_part < c_part THEN "newer"
             ELSE compare_numeric_reversed(l_numeric, c_numeric, i + 1)

RECURSIVE compare_numeric(_, _, _)
compare_numeric(l_numeric, c_numeric, i) ==
    IF i > Max(Len(l_numeric), Len(c_numeric)) THEN "equal"
    ELSE LET l_part == IF i <= Len(l_numeric) THEN l_numeric[i] ELSE 0
             c_part == IF i <= Len(c_numeric) THEN c_numeric[i] ELSE 0
         IN  IF l_part > c_part THEN "newer"
             ELSE IF l_part < c_part THEN "older"
             ELSE compare_numeric(l_numeric, c_numeric, i + 1)

\* The text lists compared for a difference, not for the greater one.
compare_versions_semantic_text_differs(latest, current) ==
    IF latest = None \/ current = None THEN FALSE
    ELSE
    LET latest_parts  == split_version_parts(normalize_version(latest))
        current_parts == split_version_parts(normalize_version(current))
        numeric == compare_numeric(latest_parts.numeric, current_parts.numeric, 1)
    IN  IF numeric = "newer" THEN TRUE
        ELSE IF numeric = "older" THEN FALSE
        ELSE IF latest_parts.text # << >> /\ current_parts.text # << >>
        THEN latest_parts.text # current_parts.text
        ELSE FALSE

\* The text lists compared when either of them is non-empty.
compare_versions_semantic_either_text(latest, current) ==
    IF latest = None \/ current = None THEN FALSE
    ELSE
    LET latest_parts  == split_version_parts(normalize_version(latest))
        current_parts == split_version_parts(normalize_version(current))
        numeric == compare_numeric(latest_parts.numeric, current_parts.numeric, 1)
    IN  IF numeric = "newer" THEN TRUE
        ELSE IF numeric = "older" THEN FALSE
        ELSE IF latest_parts.text # << >> \/ current_parts.text # << >>
        THEN list_greater(latest_parts.text, current_parts.text)
        ELSE FALSE

\* An argument that is None makes normalize_version raise AttributeError,
\* which `except Exception` turns into False.
compare_versions_semantic(latest, current) ==
    IF latest = None \/ current = None THEN FALSE
    ELSE
    LET latest_parts  == split_version_parts(normalize_version(latest))
        current_parts == split_version_parts(normalize_version(current))
        numeric == compare_numeric(latest_parts.numeric, current_parts.numeric, 1)
    IN  IF numeric = "newer" THEN TRUE
        ELSE IF numeric = "older" THEN FALSE
        ELSE IF latest_parts.text # << >> /\ current_parts.text # << >>
        THEN list_greater(latest_parts.text, current_parts.text)
        ELSE FALSE

(***************************************************************************)
(* packaging.version, the optional library is_version_newer tries first.   *)
(* parse() is modelled as the library's strict parser (packaging >= 22):   *)
(* a str that is not a PEP 440 version raises InvalidVersion.  The epoch   *)
(* ("1!") and local ("+abc") parts need characters outside Chars and are   *)
(* left out.                                                               *)
(***************************************************************************)
\* What version_parse gives when parse() raises InvalidVersion.
InvalidVersion ==
    [ valid |-> FALSE, release |-> << >>, pre |-> << 0, 0 >>, post |-> 0,
      dev |-> << 0, 0 >> ]

\* The concatenation of F(x) for the elements x of seq, in order.
RECURSIVE flat_map(_, _)
flat_map(F(_), seq) ==
    IF seq = << >> THEN << >> ELSE F(seq[1]) \o flat_map(F, Tail(seq))

\* Whether t occurs in s at position i (1-based).
str_at(s, i, t) == i + Len(t) - 1 <= Len(s) /\ SubSeq(s, i, i + Len(t) - 1) = t

\* [-_\.]? at position i: the positions after it, the greedy match first.
pep440_sep(s, i) ==
    IF i <= Len(s) /\ s[i] \in { "-", "_", "." } THEN << i + 1, i >> ELSE << i >>

\* ([0-9]+)? at position i: the position after it and the number (0 when absent).
pep440_num(s, i) ==
    LET n == digit_run(str_from(s, i - 1))
    IN  [ pos |-> i + n, n |-> digits_to_int(SubSeq(s, i, i + n - 1)) ]

\* [-_\.]? (label) [-_\.]? ([0-9]+)? at position i, for the labels given in
\* the order of the pattern's alternation: every match, in the order the
\* regular expression tries them, as [pos, l, n].
pep440_labelled(s, i, labels) ==
    LET after_label(j) ==
            flat_map(LAMBDA l :
                        IF str_at(s, j, l)
                        THEN flat_map(LAMBDA k :
                                 << [ pos |-> pep440_num(s, k).pos, l |-> l,
                                      n |-> pep440_num(s, k).n ] >>,
                                 pep440_sep(s, j + Len(l)))
                        ELSE << >>,
                     labels)
    IN  flat_map(after_label, pep440_sep(s, i))

pre_labels ==
    << << "a" >>, << "b" >>, << "c" >>, << "r", "c" >>,
       << "a", "l", "p", "h", "a" >>, << "b", "e", "t", "a" >>,
       << "p", "r", "e" >>, << "p", "r", "e", "v", "i", "e", "w" >> >>

post_labels == << << "p", "o", "s", "t" >>, << "r", "e", "v" >>, << "r" >> >>

dev_labels == << << "d", "e", "v" >> >>

\* The rank of a pre-release label after the library's normalisation
\* (alpha -> a, beta -> b, c / pre / preview -> rc): a < b < rc.
pre_rank(l) ==
    IF l \in { << "a" >>, << "a", "l", "p", "h", "a" >> } THEN 0
    ELSE IF l \in { << "b" >>, << "b", "e", "t", "a" >> } THEN 1
    ELSE 2

\* [0-9]+(?:\.[0-9]+)* at position i: the position after it and the numbers.
RECURSIVE pep440_release(_, _)
pep440_release(s, i) ==
    LET n    == digit_run(str_from(s, i - 1))
        head == digits_to_int(SubSeq(s, i, i + n - 1))
        j    == i + n
    IN  IF j + 1 <= Len(s) /\ s[j] = "." /\ s[j + 1] \in DigitChars
        THEN LET rest == pep440_release(s, j + 1)
             IN  [ pos |-> rest.pos, release |-> << head >> \o rest.release ]
        ELSE [ pos |-> j, release |-> << head >> ]

\* Every way the pattern matches the whole of s after the release, in the
\* order the regular expression tries them; absent parts are None.
pep440_matches(s, i) ==
    LET pre_alts == pep440_labelled(s, i, pre_labels)
                        \o << [ pos |-> i, l |-> None, n |-> 0 ] >>
        post_alts(j) ==
            ( IF j + 1 <= Len(s) /\ s[j] = "-" /\ s[j + 1] \in DigitChars
              THEN << [ pos |-> pep440_num(s, j + 1).pos, l |-> << "-" >>,
                        n |-> pep440_num(s, j + 1).n ] >>
              ELSE << >> )
            \o pep440_labelled(s, j, post_labels)
            \o << [ pos |-> j, l |-> None, n |-> 0 ] >>
        dev_alts(j) == pep440_labelled(s, j, dev_labels)
                           \o << [ pos |-> j, l |-> None, n |-> 0 ] >>
    IN  flat_map(LAMBDA pre :
            flat_map(LAMBDA post :
                flat_map(LAMBDA dev :
                    IF dev.pos = Len(s) + 1
                    THEN << [ pre |-> pre, post |-> post, dev |-> dev ] >>
                    ELSE << >>,
                    dev_alts(post.pos)),
                post_alts(pre.pos)),
            pre_alts)

\* The comparison key of version.parse(version_str) (Version._key without
\* epoch and local), or InvalidVersion when parse() raises it.
RECURSIVE strip_trailing_zeros(_)
strip_trailing_zeros(release) ==
    IF release # << >> /\ release[Len(release)] = 0
    THEN strip_trailing_zeros(SubSeq(release, 1, Len(release) - 1))
    ELSE release

version_parse(version_str) ==
    LET lowered == str_lower(version_str)
        s       == IF lowered # << >> /\ lowered[1] = "v" THEN Tail(lowered) ELSE lowered
    IN  IF s = << >> \/ s[1] \notin DigitChars THEN InvalidVersion
        ELSE LET rel     == pep440_release(s, 1)
                 matches == pep440_matches(s, rel.pos)
             IN  IF matches = << >> THEN InvalidVersion
                 ELSE LET m == matches[1]
                      IN  [ valid |-> TRUE,
                            release |-> strip_trailing_zeros(rel.release),
                            pre  |-> IF m.pre.l = None
                                     THEN IF m.post.l = None /\ m.dev.l # None
                                          THEN << -1, 0 >>
                                          ELSE << 3, 0 >>
                                     ELSE << pre_rank(m.pre.l), m.pre.n >>,
                            post |-> IF m.post.l = None THEN -1 ELSE m.post.n,
                            dev  |-> IF m.dev.l = None THEN << 1, 0 >>
                                     ELSE << 0, m.dev.n >> ]

\* The tuple comparison x > y of two tuples of int.
RECURSIVE tuple_greater(_, _)
tuple_greater(x, y) ==
    IF x = << >> THEN FALSE
    ELSE IF y = << >> THEN TRUE
    ELSE IF x[1] # y[1] THEN x[1] > y[1]
    ELSE tuple_greater(Tail(x), Tail(y))

\* version.parse(latest) > version.parse(current), both parsed.
version_greater(l, c) ==
    IF l.release # c.release THEN tuple_greater(l.release, c.release)
    ELSE IF l.pre # c.pre THEN tuple_greater(l.pre, c.pre)
    ELSE IF l.post # c.post THEN l.post > c.post
    ELSE tuple_greater(l.dev, c.dev)

\* version.parse(latest) > version.parse(current) inside the try block: the
\* InvalidVersion either parse raises is caught by `except Exception`.
packaging_newer(l, c) ==
    IF ~ l.valid \/ ~ c.valid THEN FALSE ELSE version_greater(l, c)

(***************************************************************************)
(* is_version_newer.  packaging_installed says whether `from packaging     *)
(* import version` succeeds in the interpreter running the program.        *)
(***************************************************************************)
\* is_version_newer answering True for equal arguments.
is_version_newer_equal_accepted(latest, current, packaging_installed) ==
    IF latest = None \/ latest = << >> \/ current = None \/ current = << >>
    THEN FALSE
    ELSE IF latest = current THEN TRUE
    ELSE IF ~ is_valid_version(latest) \/ ~ is_valid_version(current) THEN FALSE
    ELSE IF ~ packaging_installed
    THEN compare_versions_semantic(latest, current)
    ELSE packaging_newer(version_parse(latest), version_parse(current))

\* is_version_newer without the is_valid_version check of its arguments.
is_version_newer_unvalidated(latest, current, packaging_installed) ==
    IF latest = None \/ latest = << >> \/ current = None \/ current = << >>
    THEN FALSE
    ELSE IF latest = current THEN FALSE
    ELSE IF ~ packaging_installed
    THEN compare_versions_semantic(latest, current)
    ELSE packaging_newer(version_parse(latest), version_parse(current))

is_version_newer(latest, current, packaging_installed) ==
    IF latest = None \/ latest = << >> \/ current = None \/ current = << >>
    THEN FALSE
    ELSE IF latest = current THEN FALSE
    ELSE IF ~ is_valid_version(latest) \/ ~ is_valid_version(current) THEN FALSE
    ELSE IF ~ packaging_installed
    THEN compare_versions_semantic(latest, current)
    ELSE packaging_newer(version_parse(latest), version_parse(current))

(***************************************************************************)
(* is_questionable_update                                                  *)
(***************************************************************************)
\* str.strip(): leading and trailing whitespace removed.
RECURSIVE str_lstrip(_)
str_lstrip(s) ==
    IF s # << >> /\ s[1] \in SpaceChars THEN str_lstrip(Tail(s)) ELSE s

RECURSIVE str_rstrip(_)
str_rstrip(s) ==
    IF s # << >> /\ s[Len(s)] \in SpaceChars
    THEN str_rstrip(SubSeq(s, 1, Len(s) - 1))
    ELSE s

str_strip(s) == str_rstrip(str_lstrip(s))

\* int(s): surrounding whitespace is ignored, a sign may lead, and single
\* underscores may stand between digits; anything else is a ValueError.
py_int(s) ==
    LET t      == str_strip(s)
        signed == t # << >> /\ t[1] = "-"
        body   == IF signed THEN Tail(t) ELSE t
        well_formed ==
            /\ body # << >>
            /\ \A i \in 1..Len(body) : body[i] \in DigitChars \cup { "_" }
            /\ body[1] # "_"
            /\ body[Len(body)] # "_"
            /\ \A i \in 1..(Len(body) - 1) : ~ (body[i] = "_" /\ body[i + 1] = "_")
        magnitude == digits_to_int(SelectSeq(body, LAMBDA c : c # "_"))
    IN  IF well_formed
        THEN [ ok |-> TRUE, value |-> IF signed THEN 0 - magnitude ELSE magnitude ]
        ELSE [ ok |-> FALSE, value |-> 0 ]

suspicious_patterns ==
    { << "o", "n", "l", "y" >>, << "d", "e", "v" >>, << "t", "e", "s", "t" >>,
      << "d", "e", "b", "u", "g" >>, << "a", "l", "p", "h", "a" >>,
      << "b", "e", "t", "a" >> }

MaxMajorJump == 2

\* is_questionable_update without the check of the suspicious patterns.
is_questionable_update_any_suffix(current, latest) ==
    LET current_major == py_int(str_split(current, ".")[1])
        latest_major  == py_int(str_split(latest, ".")[1])
    IN  IF ~ current_major.ok \/ ~ latest_major.ok THEN TRUE
        ELSE IF latest_major.value - current_major.value > MaxMajorJump THEN TRUE
        ELSE IF latest_major.value < current_major.value THEN TRUE
        ELSE FALSE

\* is_questionable_update with a major jump of MaxMajorJump flagged too.
is_questionable_update_jump_two(current, latest) ==
    LET current_major == py_int(str_split(current, ".")[1])
        latest_major  == py_int(str_split(latest, ".")[1])
    IN  IF ~ current_major.ok \/ ~ latest_major.ok THEN TRUE
        ELSE IF latest_major.value - current_major.value >= MaxMajorJump THEN TRUE
        ELSE IF latest_major.value < current_major.value THEN TRUE
        ELSE IF contains_any(str_lower(latest), suspicious_patterns) THEN TRUE
        ELSE FALSE

is_questionable_update(current, latest) ==
    LET current_major == py_int(str_split(current, ".")[1])
        latest_major  == py_int(str_split(latest, ".")[1])
    IN  IF ~ current_major.ok \/ ~ latest_major.ok THEN TRUE
        ELSE IF latest_major.value - current_major.value > MaxMajorJump THEN TRUE
        ELSE IF latest_major.value < current_major.value THEN TRUE
        ELSE IF contains_any(str_lower(latest), suspicious_patterns) THEN TRUE
        ELSE FALSE

(***************************************************************************)
(* parse_latest_version_from_fdroidcl                                      *)
(***************************************************************************)
IndexError == << "IndexError" >>

\* The position (1-based) of the first occurrence of t in s, or 0.
str_find(s, t) ==
    IF str_contains(s, t)
    THEN CHOOSE i \in 1..Len(s) :
             str_at(s, i, t) /\ \A j \in 1..(i - 1) : ~ str_at(s, j, t)
    ELSE 0

\* s.split(t, 1)[1] for a str s that contains t: what follows the first t.
str_after(s, t) == str_from(s, str_find(s, t) + Len(t) - 1)

\* s.split()[0]: the first whitespace-delimited word, IndexError when s
\* holds no word.
first_word(s) ==
    LET t == str_lstrip(s)
    IN  IF t = << >> THEN IndexError
        ELSE IF \A i \in 1..Len(t) : t[i] \notin SpaceChars THEN t
        ELSE SubSeq(t, 1, (CHOOSE i \in 1..Len(t) :
                              t[i] \in SpaceChars
                              /\ \A j \in 1..(i - 1) : t[j] \notin SpaceChars) - 1)

strict_invalid_patterns ==
    { << "o", "n", "l", "y" >>,
      << "l", "a", "t", "e", "s", "t" >>,
      << "c", "u", "r", "r", "e", "n", "t" >>,
      << "v", "e", "r", "s", "i", "o", "n" >>,
      << "u", "n", "k", "n", "o", "w", "n" >>,
      << "n", "u", "l", "l" >>,
      << "n", "o", "n", "e" >> }

VersionLabel == << "V", "e", "r", "s", "i", "o", "n", ":" >>

\* strict_candidate without the removal of the version code: the first
\* word of what follows the label.
strict_candidate_with_code(raw_line) ==
    LET line == str_strip(raw_line)
    IN  IF ~ str_at(line, 1, VersionLabel) THEN << >>
        ELSE LET version == first_word(str_after(line, VersionLabel))
             IN  IF version = IndexError THEN IndexError
                 ELSE IF any_digit(version) THEN << version >> ELSE << >>

\* The strict pass over one line: << >> when the line yields no candidate,
\* << version >> when it yields one, IndexError when split()[0] raises.
strict_candidate(raw_line) ==
    LET line == str_strip(raw_line)
    IN  IF ~ str_at(line, 1, VersionLabel) THEN << >>
        ELSE LET after   == str_strip(str_after(line, VersionLabel))
                 cleaned == str_strip(str_split(after, "(")[1])
                 version == first_word(cleaned)
             IN  IF version = IndexError THEN IndexError
                 ELSE IF /\ \A i \in 1..Len(version) :
                                version[i] \in WordChars \cup { ".", "-" }
                         /\ any_digit(version)
                         /\ ~ contains_any(str_lower(version),
                                           strict_invalid_patterns)
                      THEN << version >>
                      ELSE << >>

\* The strict loop over the lines: the candidates found, or IndexError.
RECURSIVE strict_pass(_)
strict_pass(lines) ==
    IF lines = << >> THEN << >>
    ELSE LET head == strict_candidate(lines[1])
         IN  IF head = IndexError THEN IndexError
             ELSE LET rest == strict_pass(Tail(lines))
                  IN  IF rest = IndexError THEN IndexError ELSE head \o rest

\* \b at position i of line (between line[i-1] and line[i], 1-based).
word_boundary(line, i) ==
    LET before == i > 1 /\ line[i - 1] \in WordChars
        after  == i <= Len(line) /\ line[i] \in WordChars
    IN  before # after

\* The length of the leading run of characters of [-\.\w] in s.
RECURSIVE version_run(_)
version_run(s) ==
    IF s # << >> /\ s[1] \in WordChars \cup { "-", "." }
    THEN 1 + version_run(Tail(s))
    ELSE 0

\* re.findall(r'\b(?:v?)(\d+(?:\.\d+)*(?:[-\.\w]*)?)\b', line) from position
\* pos on: the groups of the successive non-overlapping matches.  A match
\* starts at a word boundary, at a digit or at a "v" before a digit, and
\* ends at the last word boundary within the run of [-\.\w] characters.
RECURSIVE find_versions(_, _)
find_versions(line, pos) ==
    IF pos > Len(line) THEN << >>
    ELSE LET d == IF line[pos] = "v" THEN pos + 1 ELSE pos
         IN  IF /\ word_boundary(line, pos)
                /\ d <= Len(line)
                /\ line[d] \in DigitChars
             THEN LET limit == d + version_run(str_from(line, d - 1))
                      e == CHOOSE k \in (d + 1)..limit :
                               /\ word_boundary(line, k)
                               /\ \A m \in (k + 1)..limit : ~ word_boundary(line, m)
                  IN  << SubSeq(line, d, e - 1) >> \o find_versions(line, e)
             ELSE find_versions(line, pos + 1)

MinLooseLen == 3

MaxLooseDots == 5

\* loose_pass without the limit on the number of dots.
RECURSIVE loose_pass_any_dots(_)
loose_pass_any_dots(lines) ==
    IF lines = << >> THEN << >>
    ELSE SelectSeq(find_versions(lines[1], 1),
                   LAMBDA version :
                       /\ Len(version) >= MinLooseLen
                       /\ str_contains(version, << "." >>)
                       /\ any_digit(version))
         \o loose_pass_any_dots(Tail(lines))

\* The loose pass over the lines: the matches kept, in order.
RECURSIVE loose_pass(_)
loose_pass(lines) ==
    IF lines = << >> THEN << >>
    ELSE SelectSeq(find_versions(lines[1], 1),
                   LAMBDA version :
                       /\ Len(version) >= MinLooseLen
                       /\ str_contains(version, << "." >>)
                       /\ Len(SelectSeq(version, LAMBDA c : c = ".")) <= MaxLooseDots
                       /\ any_digit(version))
         \o loose_pass(Tail(lines))

\* The version found in `fdroidcl show` output, None when there is none,
\* IndexError when the strict pass raises it.
parse_latest_version_from_fdroidcl(output) ==
    IF output = None \/ output = << >> THEN None
    ELSE LET lines  == str_split(output, "\n")
             strict == strict_pass(lines)
         IN  IF strict = IndexError THEN IndexError
             ELSE LET found_versions ==
                          IF strict = << >> THEN loose_pass(lines) ELSE strict
                  IN  IF found_versions # << >> THEN found_versions[1] ELSE None

(***************************************************************************)
(* get_package_version: the parsing of `adb shell dumpsys package` output. *)
(* output is what run_adb_command returned: the stripped stdout, or None   *)
(* when adb exited non-zero.                                               *)
(***************************************************************************)
VersionNameKey ==
    << "v", "e", "r", "s", "i", "o", "n", "N", "a", "m", "e", "=" >>

\* line.split('versionName=')[1]: what stands between the first
\* 'versionName=' and the next one (or the end of the line).
version_name_field(line) ==
    LET rest == str_after(line, VersionNameKey)
        next == str_find(rest, VersionNameKey)
    IN  IF next = 0 THEN rest ELSE SubSeq(rest, 1, next - 1)

RECURSIVE version_from_lines(_)
version_from_lines(lines) ==
    IF lines = << >> THEN None
    ELSE IF str_contains(lines[1], VersionNameKey)
    THEN LET version == first_word(version_name_field(lines[1]))
         IN  IF version = IndexError THEN IndexError ELSE str_strip(version)
    ELSE version_from_lines(Tail(lines))

parse_package_version(output) ==
    IF output = None \/ output = << >> THEN None
    ELSE version_from_lines(str_split(output, "\n"))

(***************************************************************************)
(* The collaborators of the update scan.  What `adb shell dumpsys package` *)
(* prints for a package and what `fdroidcl show` prints are inputs; the    *)
(* scan meets them one package at a time.                                  *)
(***************************************************************************)
\* '  versionName=1.0\n'
DumpsysV10 ==
    << " ", " ", "v", "e", "r", "s", "i", "o", "n", "N", "a", "m", "e",
       "=", "1", ".", "0", "\n" >>

\* '    versionCode=12\n    versionName=2.1.0\n'
DumpsysV210 ==
    << " ", " ", " ", " ", "v", "e", "r", "s", "i", "o", "n", "C", "o",
       "d", "e", "=", "1", "2", "\n", " ", " ", " ", " ", "v", "e", "r",
       "s", "i", "o", "n", "N", "a", "m", "e", "=", "2", ".", "1", ".",
       "0", "\n" >>

\* 'versionName=1'
DumpsysShortVersion ==
    << "v", "e", "r", "s", "i", "o", "n", "N", "a", "m", "e", "=", "1" >>

\* 'versionName='
DumpsysNoValue ==
    << "v", "e", "r", "s", "i", "o", "n", "N", "a", "m", "e", "=" >>

\* ''
DumpsysEmpty ==
    << >>

\* 'Version: 1.1\n'
ShowV11 ==
    << "V", "e", "r", "s", "i", "o", "n", ":", " ", "1", ".", "1", "\n" >>

\* 'Version: 2.3.0-beta (12)\n'
ShowV230Beta ==
    << "V", "e", "r", "s", "i", "o", "n", ":", " ", "2", ".", "3", ".",
       "0", "-", "b", "e", "t", "a", " ", "(", "1", "2", ")", "\n" >>

\* 'Version: 4.0.0'
ShowV400 ==
    << "V", "e", "r", "s", "i", "o", "n", ":", " ", "4", ".", "0", ".", "0" >>

\* 'No version info here'
ShowNoVersion ==
    << "N", "o", " ", "v", "e", "r", "s", "i", "o", "n", " ", "i", "n",
       "f", "o", " ", "h", "e", "r", "e" >>

\* ''
ShowEmpty ==
    << >>

\* 'Version: (12)'
ShowOnlyCode ==
    << "V", "e", "r", "s", "i", "o", "n", ":", " ", "(", "1", "2", ")" >>

\* '12'
Show12 ==
    << "1", "2" >>

\* 'Version: 1.0-app'
ShowV10App ==
    << "V", "e", "r", "s", "i", "o", "n", ":", " ", "1", ".", "0", "-",
       "a", "p", "p" >>

\* What subprocess.run does inside run_adb_command: adb exits non-zero
\* (CalledProcessError, caught there), adb cannot be executed any more
\* (OSError, not caught there), or adb prints its output.
CalledProcessError == << "CalledProcessError" >>

OSError == << "OSError" >>

DumpsysOutputs ==
    { DumpsysV10, DumpsysV210, DumpsysShortVersion, DumpsysNoValue, DumpsysEmpty }

AdbOutcomes == { CalledProcessError, OSError } \cup DumpsysOutputs

\* What subprocess.run(['fdroidcl', 'show', package], timeout=15) does:
\* it raises TimeoutExpired, it raises OSError (fdroidcl cannot be executed),
\* or it completes with a return code and the text printed.
Completed(returncode, stdout) ==
    [ kind |-> "completed", returncode |-> returncode, stdout |-> stdout ]

Raised(exception) == [ kind |-> exception, returncode |-> 0, stdout |-> << >> ]

NoResult == [ kind |-> "none", returncode |-> 0, stdout |-> << >> ]

ShowOutputs ==
    { ShowV11, ShowV230Beta, ShowV400, ShowNoVersion, ShowEmpty, ShowOnlyCode,
      ShowV10App, Show12 }

FdroidclOutcomes ==
    { Raised("TimeoutExpired"), Raised("OSError"), Completed(1, << >>) }
        \cup { Completed(0, stdout) : stdout \in ShowOutputs }

\* The most packages the device reports as installed.
MaxPkgs == 3

(***************************************************************************)
(* get_package_version                                                     *)
(***************************************************************************)
\* run_adb_command: the stripped stdout, None on CalledProcessError; OSError
\* propagates.
run_adb_command(outcome) ==
    IF outcome = OSError THEN OSError
    ELSE IF outcome = CalledProcessError THEN None
    ELSE str_strip(outcome)

\* The version get_package_version returns, None when it returns None, or
\* the name of the exception that leaves it.
get_package_version(outcome) ==
    LET output == run_adb_command(outcome)
    IN  IF output = OSError THEN OSError ELSE parse_package_version(output)

(***************************************************************************)
(* get_available_updates: one package's repository lookup and check        *)
(* (the inner try block), then the assembly of the plan.                   *)
(***************************************************************************)
\* A record built without the validity check of line 282, from the semantic
\* comparison alone.
classify_update_unvalidated(current_version, latest_version, lib) ==
    IF compare_versions_semantic(latest_version, current_version)
    THEN IF is_questionable_update(current_version, latest_version)
         THEN "questionable"
         ELSE "valid"
    ELSE "not_newer"

\* The comparison of line 286 with its arguments exchanged.
classify_update_swapped(current_version, latest_version, lib) ==
    IF ~ is_valid_version(current_version) \/ ~ is_valid_version(latest_version)
    THEN "invalid"
    ELSE IF is_version_newer(current_version, latest_version, lib)
    THEN IF is_questionable_update(current_version, latest_version)
         THEN "questionable"
         ELSE "valid"
    ELSE "not_newer"

\* What the checks of lines 282-298 do with an extracted pair: "invalid"
\* (continue), "not_newer" (no record), "valid" (appended to
\* updates_available) or "questionable" (appended to questionable_updates).
classify_update(current_version, latest_version, lib) ==
    IF ~ is_valid_version(current_version) \/ ~ is_valid_version(latest_version)
    THEN "invalid"
    ELSE IF is_version_newer(latest_version, current_version, lib)
    THEN IF is_questionable_update(current_version, latest_version)
         THEN "questionable"
         ELSE "valid"
    ELSE "not_newer"

\* How one package's inner try block is left: the line control is at (a
\* `continue`, or "checked": check_count += 1), whether latest_version was
\* assigned and to what, and the bucket the package's record goes to.
left_at(line, assigned) ==
    [ line |-> line, assigned |-> assigned, latest_version |-> None,
      bucket |-> "none" ]

\* The line the checks of lines 282-298 leave the block at.
line_after(bucket) == IF bucket = "invalid" THEN "continue_invalid" ELSE "checked"

\* The inner try block from the extraction's outcome on.
check_versions(current_version, latest_version, lib) ==
    IF latest_version = IndexError THEN left_at("continue_exception", FALSE)
    ELSE IF latest_version = None THEN left_at("continue_parsing_error", TRUE)
    ELSE [ line |-> line_after(classify_update(current_version, latest_version, lib)),
           assigned |-> TRUE,
           latest_version |-> latest_version,
           bucket |-> classify_update(current_version, latest_version, lib) ]

\* The inner try block with subprocess.run's exceptions left uncaught.
check_package_uncaught(current_version, result, lib) ==
    IF result.kind # "completed" THEN left_at("raised", FALSE)
    ELSE IF result.returncode # 0 THEN left_at("continue_not_in_repos", FALSE)
    ELSE check_versions(current_version,
                        parse_latest_version_from_fdroidcl(result.stdout), lib)

\* The inner try block with the printed text taken as the version when the
\* extraction finds none.
check_package_raw_text(current_version, result, lib) ==
    IF result.kind = "TimeoutExpired" THEN left_at("continue_timeout", FALSE)
    ELSE IF result.kind # "completed" THEN left_at("continue_exception", FALSE)
    ELSE IF result.returncode # 0 THEN left_at("continue_not_in_repos", FALSE)
    ELSE IF parse_latest_version_from_fdroidcl(result.stdout) = None
    THEN check_versions(current_version, str_strip(result.stdout), lib)
    ELSE check_versions(current_version,
                        parse_latest_version_from_fdroidcl(result.stdout), lib)

\* The inner try block for one package, from what subprocess.run did.
check_package(current_version, result, lib) ==
    IF result.kind = "TimeoutExpired" THEN left_at("continue_timeout", FALSE)
    ELSE IF result.kind # "completed" THEN left_at("continue_exception", FALSE)
    ELSE IF result.returncode # 0 THEN left_at("continue_not_in_repos", FALSE)
    ELSE check_versions(current_version,
                        parse_latest_version_from_fdroidcl(result.stdout), lib)

\* The lines of the loop body after which the for statement takes the next
\* package.
LoopEnds ==
    { "continue_no_version", "continue_not_in_repos", "continue_parsing_error",
      "continue_invalid", "continue_timeout", "continue_exception", "checked" }

\* The record appended for a package with an update.
update_info(package, current_version, latest_version) ==
    [ package |-> package, current_version |-> current_version,
      latest_version |-> latest_version ]

\* The questionable updates appended whatever click.confirm answered.
assemble_plan_always(updates, questionable, answer) ==
    updates \o questionable

\* The list returned: updates_available after the click.confirm answer.
assemble_plan(updates, questionable, answer) ==
    IF questionable # << >> /\ answer = "yes" THEN updates \o questionable
    ELSE updates

\* KeyboardInterrupt not caught by the outer try.
after_interrupt_uncaught == "raised"

\* Where control goes when KeyboardInterrupt reaches the outer try.
after_interrupt == "confirm"

VARIABLES
    adb_path,              \* self.adb_path: "none" when find_adb found no adb
    packaging_installed,   \* whether `from packaging import version` succeeds
    pc,                    \* where get_available_updates is
    installed_packages,    \* the list get_installed_packages returned
    i,                     \* the 1-based index of the package being examined
    updates_available,
    questionable_updates,
    current_version,       \* the loop's locals, as the last iteration left them
    result,
    latest_version,
    interrupted,           \* whether the KeyboardInterrupt handler ran
    answer,                \* what click.confirm answered, "none" when not asked
    exception,             \* the exception that left the scan, "none" when none did
    args,                  \* the arguments of a direct call of one function
    returned,              \* what that call returned
    android_serial,        \* os.environ['ANDROID_SERIAL'], "none" when unset
    installs,              \* the `fdroidcl install` runs of the last call, in order
    mappings,              \* self.mappings: friendly name -> package id
    updates,               \* update_device_packages: the list get_available_updates returned
    success_count,
    failed_packages,
    calls,                 \* the calls of install_package and update_device_packages made
    cache,                 \* APKDownloader: the files of self.cache_dir, by name
    apk_package,           \* download_apk: the record of the index it selected
    verified               \* what _verify_apk said of the file now at local_path

vars ==
    << adb_path, packaging_installed, pc, installed_packages, i,
       updates_available, questionable_updates, current_version, result,
       latest_version, interrupted, answer, exception, args, returned,
       android_serial, installs, mappings, updates, success_count,
       failed_packages, calls, cache, apk_package, verified >>

buckets == << updates_available, questionable_updates >>

locals == << current_version, result, latest_version >>

call_vars == << args, returned >>

install_vars ==
    << android_serial, installs, mappings, updates, success_count,
       failed_packages, calls >>

\* The variables of the install and update commands before one runs, for a
\* manager without mappings.
InstallIdle ==
    /\ android_serial = "none"
    /\ installs = << >>
    /\ mappings = << >>
    /\ updates = << >>
    /\ success_count = 0
    /\ failed_packages = << >>
    /\ calls = 0

download_vars == << cache, apk_package, verified >>

\* The variables of download_apk where no APKDownloader is made.
DownloadIdle ==
    /\ cache = << >>
    /\ apk_package = << >>
    /\ verified = "none"

\* The scan's variables as they are before get_available_updates runs.
ScanIdle ==
    /\ installed_packages = << >>
    /\ i = 0
    /\ updates_available = << >>
    /\ questionable_updates = << >>
    /\ current_version = None
    /\ result = NoResult
    /\ latest_version = None
    /\ interrupted = FALSE
    /\ answer = "none"
    /\ exception = "none"

Init ==
    /\ adb_path \in { "none", "adb" }
    /\ packaging_installed \in BOOLEAN
    /\ pc = "start"
    /\ ScanIdle
    /\ InstallIdle
    /\ DownloadIdle
    /\ args = << >>
    /\ returned = FALSE

\* get_installed_packages and the early return on an empty list.
Start ==
    /\ pc = "start"
    /\ \E n \in 0..MaxPkgs :
        /\ adb_path = "none" => n = 0
        /\ installed_packages' = [ k \in 1..n |-> k ]
        /\ IF n = 0
           THEN pc' = "returned" /\ i' = 0
           ELSE pc' = "device" /\ i' = 1
    /\ UNCHANGED << download_vars, install_vars,
                    adb_path, packaging_installed, buckets, locals,
                    interrupted, answer, exception, call_vars >>

\* The for statement: on to the next package, or out of the loop when this
\* was the last one.
next_pc == IF i < Len(installed_packages) THEN "device" ELSE "confirm"

\* Where control goes from get_package_version's return value: the
\* `if not current_version: continue`, or the inner try block.
after_device(version) ==
    IF version = None THEN "continue_no_version" ELSE "fdroidcl"

\* current_version = self.get_package_version(package, device_id) and the
\* `if not current_version` after it.
GetPackageVersion ==
    /\ pc = "device"
    /\ \E outcome \in AdbOutcomes :
        \E version \in { get_package_version(outcome) } :
            IF version \in { OSError, IndexError }
            THEN /\ pc' = "raised"
                 /\ exception' = version[1]
                 /\ current_version' = current_version
            ELSE /\ current_version' = version
                 /\ exception' = exception
                 /\ pc' = after_device(version)
    /\ UNCHANGED << download_vars, install_vars,
                    adb_path, packaging_installed, installed_packages, i, buckets,
                    result, latest_version, interrupted, answer, call_vars >>

\* The inner try block: the repository lookup, the extraction, the checks
\* and the append.
FdroidclShow ==
    /\ pc = "fdroidcl"
    /\ \E outcome \in FdroidclOutcomes :
        \E checked \in { check_package(current_version, outcome, packaging_installed) } :
            /\ result' = IF outcome.kind = "completed" THEN outcome ELSE result
            /\ latest_version' = IF checked.assigned THEN checked.latest_version
                                 ELSE latest_version
            /\ updates_available' =
                   IF checked.bucket = "valid"
                   THEN Append(updates_available,
                               update_info(installed_packages[i], current_version,
                                           checked.latest_version))
                   ELSE updates_available
            /\ questionable_updates' =
                   IF checked.bucket = "questionable"
                   THEN Append(questionable_updates,
                               update_info(installed_packages[i], current_version,
                                           checked.latest_version))
                   ELSE questionable_updates
            /\ pc' = checked.line
    /\ UNCHANGED << download_vars, install_vars,
                    adb_path, packaging_installed, installed_packages, i,
                    current_version, interrupted, answer, exception, call_vars >>

\* A `continue`, or the end of the loop body: the for statement.
LoopNext ==
    /\ pc \in LoopEnds
    /\ pc' = next_pc
    /\ i' = i + 1
    /\ UNCHANGED << download_vars, install_vars,
                    adb_path, packaging_installed, installed_packages, buckets,
                    locals, interrupted, answer, exception, call_vars >>

\* KeyboardInterrupt while the loop waits for adb or for fdroidcl: the outer
\* handler, then the code after the loop.
Interrupt ==
    /\ pc \in { "device", "fdroidcl" }
    /\ interrupted' = TRUE
    /\ pc' = after_interrupt
    /\ exception' = IF after_interrupt = "raised" THEN "KeyboardInterrupt" ELSE exception
    /\ UNCHANGED << download_vars, install_vars,
                    adb_path, packaging_installed, installed_packages, i, buckets,
                    locals, answer, call_vars >>

\* The code after the loop: the click.confirm prompt when there are
\* questionable updates, and the return.
Confirm ==
    /\ pc = "confirm"
    /\ IF questionable_updates = << >>
       THEN /\ answer' = answer
            /\ updates_available' = assemble_plan(updates_available, questionable_updates, answer)
            /\ pc' = "returned"
            /\ exception' = exception
       ELSE \E a \in { "yes", "no", "Abort" } :
            /\ answer' = a
            /\ IF a = "Abort"
               THEN /\ pc' = "raised"
                    /\ exception' = "Abort"
                    /\ updates_available' = updates_available
               ELSE /\ pc' = "returned"
                    /\ exception' = exception
                    /\ updates_available' =
                           assemble_plan(updates_available, questionable_updates, a)
    /\ UNCHANGED << download_vars, install_vars,
                    adb_path, packaging_installed, installed_packages, i,
                    questionable_updates, locals, interrupted, call_vars >>

Next ==
    Start \/ GetPackageVersion \/ FdroidclShow \/ LoopNext \/ Interrupt \/ Confirm

Spec == Init /\ [][Next]_vars

(***************************************************************************)
(* Properties of the scan, checked under Spec.                             *)
(***************************************************************************)
Records(bucket) == { bucket[k] : k \in 1..Len(bucket) }

AllRecords == Records(updates_available) \cup Records(questionable_updates)

IsPrefix(s, t) == Len(s) <= Len(t) /\ SubSeq(t, 1, Len(s)) = s

\* The packages are numbered in the order the loop takes them.
ScanOrder(bucket) ==
    \A j, k \in 1..Len(bucket) : j < k => bucket[j].package < bucket[k].package

Questionable(r) == is_questionable_update(r.current_version, r.latest_version)

NotQuestionable(r) == ~ Questionable(r)

\* The record of the package the loop is at.
ThisRecord == update_info(installed_packages[i], current_version, latest_version)

NoRecordOfThisPackage == \A r \in AllRecords : r.package # installed_packages[i]

\* C1: in every state of the scan, every record in updates_available or in
\* questionable_updates has a current_version and a latest_version that each
\* pass is_valid_version.
C1_RecordsValid ==
    \A r \in AllRecords :
        is_valid_version(r.current_version) /\ is_valid_version(r.latest_version)

\* The scan holds a record in each of the two buckets.
C1_Witness ==
    /\ pc = "checked"
    /\ updates_available # << >>
    /\ questionable_updates # << >>

\* C2: in every state of the scan, every record's latest_version is newer than
\* its current_version by is_version_newer; no record holds an equal or an
\* older latest_version.
C2_RecordsNewer ==
    \A r \in AllRecords :
        /\ is_version_newer(r.latest_version, r.current_version, packaging_installed)
        /\ r.latest_version # r.current_version

\* A package whose repository version 1.1 is older than the installed 2.1.0
\* has been checked and left without a record, while another package has one.
C2_Witness ==
    /\ pc = "checked"
    /\ current_version = << "2", ".", "1", ".", "0" >>
    /\ latest_version = << "1", ".", "1" >>
    /\ NoRecordOfThisPackage
    /\ AllRecords # { }

\* C3: the list returned is the valid records in scan order, followed by the
\* questionable records in scan order exactly when click.confirm answered
\* yes; answered no, it holds no questionable record; every newer pair checked
\* is appended to the bucket its classification names, and no step removes or
\* reorders a record of either bucket.
C3_PlanState ==
    /\ ScanOrder(questionable_updates)
    /\ \A r \in Records(questionable_updates) : Questionable(r)
    /\ pc # "returned" =>
           /\ ScanOrder(updates_available)
           /\ \A r \in Records(updates_available) : NotQuestionable(r)
    /\ pc = "returned" =>
           /\ updates_available =
                  SelectSeq(updates_available, NotQuestionable)
                      \o SelectSeq(updates_available, Questionable)
           /\ ScanOrder(SelectSeq(updates_available, NotQuestionable))
           /\ SelectSeq(updates_available, Questionable) =
                  IF answer = "yes" THEN questionable_updates ELSE << >>
    /\ pc = "checked" =>
           IF is_version_newer(latest_version, current_version, packaging_installed)
           THEN IF Questionable(ThisRecord)
                THEN /\ questionable_updates # << >>
                     /\ questionable_updates[Len(questionable_updates)] = ThisRecord
                     /\ ThisRecord \notin Records(updates_available)
                ELSE /\ updates_available # << >>
                     /\ updates_available[Len(updates_available)] = ThisRecord
                     /\ ThisRecord \notin Records(questionable_updates)
           ELSE NoRecordOfThisPackage

C3_Plan ==
    /\ [] C3_PlanState
    /\ [][ /\ IsPrefix(updates_available, updates_available')
           /\ IsPrefix(questionable_updates, questionable_updates') ]_vars

\* The scan has returned two valid records and not the questionable one,
\* click.confirm having answered no.
C3_Witness ==
    /\ pc = "returned"
    /\ answer = "no"
    /\ Len(updates_available) = 2
    /\ Len(questionable_updates) = 1


\* The lines a failed repository lookup leaves the inner try block at.
LookupFailureLines ==
    { "continue_timeout", "continue_exception", "continue_not_in_repos" }

\* The for statement takes the next package, or leaves the loop after the
\* last one; it touches no record.
ScanProceeds ==
    /\ buckets' = buckets
    /\ i' = i + 1
    /\ pc' = IF i < Len(installed_packages) THEN "device" ELSE "confirm"
    /\ ~ interrupted'

\* C4: a repository lookup that times out, exits non-zero or fails in any
\* other way never raises out of the scan and leaves no record of its
\* package; the loop then goes on to the next package, and no step removes a
\* record accumulated before.
C4_LookupFailureSkips ==
    /\ [](pc \in LookupFailureLines => NoRecordOfThisPackage)
    /\ [][ /\ pc = "fdroidcl" => pc' # "raised"
           /\ pc = "fdroidcl" /\ pc' \in LookupFailureLines => buckets' = buckets
           /\ pc \in LookupFailureLines => ScanProceeds
           /\ IsPrefix(updates_available, updates_available')
           /\ IsPrefix(questionable_updates, questionable_updates') ]_vars

\* The lookup of the second of three packages has timed out, the first
\* package's record being held.
C4_Witness ==
    /\ pc = "continue_timeout"
    /\ i = 2
    /\ Len(installed_packages) = 3
    /\ Len(updates_available) = 1

\* C5: a failure of the device call that reads a package's installed version
\* skips that package only: no exception of get_package_version leaves the
\* scan.
C5_DeviceFailureSkips ==
    ~ (pc = "raised" /\ exception \in { "OSError", "IndexError" })

\* C6: a KeyboardInterrupt stops the loop where it is, changes no record of
\* either bucket, and the scan goes on to the prompt and returns the records
\* accumulated: the valid ones, then the questionable ones when click.confirm
\* answered yes.
C6_InterruptKeepsRecords ==
    /\ [](interrupted => pc \in { "confirm", "returned" } \/ exception = "Abort")
    /\ [][ /\ interrupted' /\ ~ interrupted => buckets' = buckets /\ pc' = "confirm"
           /\ interrupted =>
                  /\ i' = i
                  /\ questionable_updates' = questionable_updates
                  /\ pc' # "returned" => updates_available' = updates_available
                  /\ pc' = "returned" =>
                         updates_available' =
                             IF answer' = "yes"
                             THEN updates_available \o questionable_updates
                             ELSE updates_available ]_vars

\* A scan of three packages, interrupted at its second package, has returned
\* the first package's record.
C6_Witness ==
    /\ pc = "returned"
    /\ interrupted
    /\ i = 2
    /\ Len(installed_packages) = 3
    /\ Len(updates_available) = 1

\* C7: a package whose device call returns no version, whose lookup prints
\* nothing, or in whose text no version is found, gets no record, and the loop
\* goes on to the next package without an exception.
C7_AbsentVersionSkips ==
    /\ [](pc \in { "continue_no_version", "continue_parsing_error" }
             => NoRecordOfThisPackage)
    /\ [][ /\ pc = "device" /\ pc' \notin { "raised", "confirm" }
               => (current_version' = None <=> pc' = "continue_no_version")
           /\ pc = "fdroidcl" /\ buckets' # buckets =>
                  /\ current_version # None
                  /\ result'.kind = "completed"
                  /\ result'.stdout # << >>
                  /\ parse_latest_version_from_fdroidcl(result'.stdout)
                         \notin { None, IndexError }
                  /\ latest_version' =
                         parse_latest_version_from_fdroidcl(result'.stdout)
           /\ pc \in { "continue_no_version", "continue_parsing_error" }
               => ScanProceeds ]_vars

\* The lookup of a later package printed nothing, a record being held.
C7_Witness ==
    /\ pc = "continue_parsing_error"
    /\ result.stdout = << >>
    /\ i > 1
    /\ updates_available # << >>

(***************************************************************************)
(* Direct calls of the comparison functions: is_version_newer and          *)
(* compare_versions_semantic applied to a pair of version strings.         *)
(***************************************************************************)
\* The longest generated version string.
MaxLen == 3

VersionAlphabet == { "0", "1", ".", "a" }

GeneratedVersions == UNION { [ 1..n -> VersionAlphabet ] : n \in 0..MaxLen }

SampleVersions ==
    { << "1", ".", "2", ".", "3" >>,
      << "1", ".", "2", ".", "2" >>,
      << "2", "0", "2", "5", ".", "0", "6", ".", "2", "6", "-", "3" >>,
      << "2", "0", "2", "5", ".", "0", "6", ".", "2", "6", "-", "2" >>,
      << "1", ".", "2" >>,
      << "1", ".", "2", ".", "0" >>,
      << "1", ".", "2", ".", "1" >>,
      << "1", ".", "2", ".", "3", "-", "r", "c", "1" >>,
      << "1", ".", "2", ".", "3", "-", "r", "c", "2" >>,
      << "1", ".", "2", ".", "3", "-", "r", "c", "1", ".", "x" >>,
      << "2", ".", "3", ".", "0", "-", "b", "e", "t", "a" >>,
      << "2", ".", "1", ".", "0" >>,
      << "v", "1", ".", "2", ".", "3" >>,
      << "1", ".", "0", "-", "B", "E", "T", "A" >>,
      << "o", "n", "l", "y" >>,
      << "1", ".", "0", "-", "a", "p", "p" >>,
      << "1", ".", "2", ".", "3", ".", "4", ".", "5", ".", "6", ".", "7", ".",
         "8", ".", "9", ".", "1", "0" >>,
      << "1", ".", "2", ".", "3", ".", "4", ".", "5", ".", "6", ".", "7", ".",
         "8", ".", "9", ".", "1", "0", "0" >>,
      << "1", "_", "0", ".", "1" >> }

\* The values passed as a version: strings, the empty string and None.
VersionArgs == GeneratedVersions \cup SampleVersions \cup { None }

InitNewer ==
    /\ adb_path = "none"
    /\ packaging_installed \in BOOLEAN
    /\ pc = "call"
    /\ ScanIdle
    /\ InstallIdle
    /\ DownloadIdle
    /\ args \in VersionArgs \X VersionArgs
    /\ returned = FALSE

\* self.is_version_newer(latest, current)
CallIsVersionNewer ==
    /\ pc = "call"
    /\ pc' = "is_version_newer"
    /\ returned' = is_version_newer(args[1], args[2], packaging_installed)
    /\ UNCHANGED << download_vars, install_vars,
                    adb_path, packaging_installed, installed_packages, i, buckets,
                    locals, interrupted, answer, exception, args >>

\* self.compare_versions_semantic(latest, current)
CallCompareVersionsSemantic ==
    /\ pc = "call"
    /\ pc' = "compare_versions_semantic"
    /\ returned' = compare_versions_semantic(args[1], args[2])
    /\ UNCHANGED << download_vars, install_vars,
                    adb_path, packaging_installed, installed_packages, i, buckets,
                    locals, interrupted, answer, exception, args >>

NextNewer == CallIsVersionNewer \/ CallCompareVersionsSemantic

SpecNewer == InitNewer /\ [][NextNewer]_vars

(***************************************************************************)
(* Properties of the comparison functions, checked under SpecNewer.        *)
(***************************************************************************)
latest_arg == args[1]

current_arg == args[2]

Str123 == << "1", ".", "2", ".", "3" >>

Str122 == << "1", ".", "2", ".", "2" >>

Str12 == << "1", ".", "2" >>

Str120 == << "1", ".", "2", ".", "0" >>

Str121 == << "1", ".", "2", ".", "1" >>

StrBuild3 == << "2", "0", "2", "5", ".", "0", "6", ".", "2", "6", "-", "3" >>

StrBuild2 == << "2", "0", "2", "5", ".", "0", "6", ".", "2", "6", "-", "2" >>

\* C8: is_version_newer(x, x) is False for every version x that passes
\* is_valid_version, with and without the packaging library.
C8_Irreflexive ==
    ( /\ pc = "is_version_newer"
      /\ latest_arg = current_arg
      /\ is_valid_version(latest_arg) )
        => returned = FALSE

\* is_version_newer has been called with "1.2.3" twice.
C8_Witness ==
    /\ pc = "is_version_newer"
    /\ latest_arg = Str123
    /\ current_arg = Str123
    /\ returned = FALSE

\* C9: is_version_newer returns a boolean, and returns False when either
\* argument is None, is empty or fails is_valid_version, and when
\* packaging's parse raises InvalidVersion for either argument;
\* compare_versions_semantic returns False when an argument that is None
\* makes it raise inside its try block.
C9_FalseOnInvalid ==
  /\ pc = "compare_versions_semantic" =>
        /\ returned \in BOOLEAN
        /\ (latest_arg = None \/ current_arg = None) => returned = FALSE
  /\ pc = "is_version_newer" =>
        /\ returned \in BOOLEAN
        /\ (latest_arg \in { None, << >> } \/ current_arg \in { None, << >> })
               => returned = FALSE
        /\ (~ is_valid_version(latest_arg) \/ ~ is_valid_version(current_arg))
               => returned = FALSE
        /\ ( /\ packaging_installed
             /\ is_valid_version(latest_arg)
             /\ is_valid_version(current_arg)
             /\ ~ version_parse(latest_arg).valid
                    \/ ~ version_parse(current_arg).valid )
               => returned = FALSE

\* is_version_newer has been called with the too short "1" as latest and the
\* valid "0.1" as current.
C9_Witness ==
    /\ pc = "is_version_newer"
    /\ latest_arg = << "1" >>
    /\ current_arg = << "0", ".", "1" >>
    /\ returned = FALSE

\* The numeric list of a version after normalize_version and
\* split_version_parts, and its value at a position, 0 past its end.
NumericOf(v) == split_version_parts(normalize_version(v)).numeric

PaddedAt(numeric, k) == IF k <= Len(numeric) THEN numeric[k] ELSE 0

\* The first position at which the padded numeric lists differ decides.
FirstDifferenceDecides ==
    LET l_numeric == NumericOf(latest_arg)
        c_numeric == NumericOf(current_arg)
    IN  \A k \in 1..Max(Len(l_numeric), Len(c_numeric)) :
            ( /\ PaddedAt(l_numeric, k) # PaddedAt(c_numeric, k)
              /\ \A m \in 1..(k - 1) :
                     PaddedAt(l_numeric, m) = PaddedAt(c_numeric, m) )
            => returned = (PaddedAt(l_numeric, k) > PaddedAt(c_numeric, k))

\* C10: for two valid, distinct versions, compare_versions_semantic, and
\* is_version_newer when it falls back to it, return True exactly when
\* latest's number is the greater one at the first position where the
\* numeric lists, the shorter padded with 0, differ; and is_version_newer
\* gives the stated answers for 1.2.3 / 1.2.2, 2025.06.26-3 / 2025.06.26-2
\* and 1.2 / 1.2.0.
C10_NumericComparison ==
    /\ ( /\ pc = "compare_versions_semantic"
               \/ (pc = "is_version_newer" /\ ~ packaging_installed)
         /\ is_valid_version(latest_arg)
         /\ is_valid_version(current_arg)
         /\ latest_arg # current_arg )
           => FirstDifferenceDecides
    /\ pc = "is_version_newer" =>
           /\ args = << Str123, Str122 >> => returned = TRUE
           /\ args = << Str122, Str123 >> => returned = FALSE
           /\ args = << StrBuild3, StrBuild2 >> => returned = TRUE
           /\ args = << Str12, Str120 >> => returned = FALSE
           /\ args = << Str120, Str12 >> => returned = FALSE

\* compare_versions_semantic has found 1.2.1 newer than 1.2, whose numeric
\* list is the shorter one.
C10_Witness ==
    /\ pc = "compare_versions_semantic"
    /\ latest_arg = Str121
    /\ current_arg = Str12
    /\ returned = TRUE

\* The text list of a version after normalize_version and
\* split_version_parts.
TextOf(v) == split_version_parts(normalize_version(v)).text

\* a > b for two str: at the first position where they differ a has the
\* greater code point, or b is a proper prefix of a.
StrGreater(a, b) ==
    \E k \in 1..Len(a) :
        /\ \A m \in 1..(k - 1) : m <= Len(b) /\ a[m] = b[m]
        /\ k > Len(b) \/ Ord[a[k]] > Ord[b[k]]

\* x > y for two lists of str, element-wise, a proper prefix being less.
TextGreater(x, y) ==
    \E k \in 1..Len(x) :
        /\ \A m \in 1..(k - 1) : m <= Len(y) /\ x[m] = y[m]
        /\ k > Len(y) \/ StrGreater(x[k], y[k])

NumericEqual ==
    LET l_numeric == NumericOf(latest_arg)
        c_numeric == NumericOf(current_arg)
    IN  \A k \in 1..Max(Len(l_numeric), Len(c_numeric)) :
            PaddedAt(l_numeric, k) = PaddedAt(c_numeric, k)

Str123rc1 == << "1", ".", "2", ".", "3", "-", "r", "c", "1" >>

Str123rc2 == << "1", ".", "2", ".", "3", "-", "r", "c", "2" >>

\* C11: when the numeric lists are equal with the shorter padded with 0,
\* compare_versions_semantic, and is_version_newer when it falls back to it,
\* return True exactly when both text lists are non-empty and latest's is
\* the greater one element-wise, a proper prefix being less; so neither of
\* 1.2.3-rc1 and 1.2.3 is newer than the other.
C11_TextComparison ==
    /\ ( /\ pc = "compare_versions_semantic"
               \/ (pc = "is_version_newer" /\ ~ packaging_installed)
         /\ is_valid_version(latest_arg)
         /\ is_valid_version(current_arg)
         /\ latest_arg # current_arg
         /\ NumericEqual )
           => returned = ( /\ TextOf(latest_arg) # << >>
                           /\ TextOf(current_arg) # << >>
                           /\ TextGreater(TextOf(latest_arg), TextOf(current_arg)) )
    /\ pc = "compare_versions_semantic" =>
           /\ args = << Str123rc1, Str123 >> => returned = FALSE
           /\ args = << Str123, Str123rc1 >> => returned = FALSE

\* compare_versions_semantic has found 1.2.3-rc2 newer than 1.2.3-rc1 by
\* their text lists.
C11_Witness ==
    /\ pc = "compare_versions_semantic"
    /\ latest_arg = Str123rc2
    /\ current_arg = Str123rc1
    /\ returned = TRUE

\* packaging's parse raises InvalidVersion for one of two arguments that
\* pass the checks before the try block.
ParseFails ==
    /\ is_valid_version(latest_arg)
    /\ is_valid_version(current_arg)
    /\ ~ version_parse(latest_arg).valid \/ ~ version_parse(current_arg).valid

\* C12: with the packaging library installed, when its parse fails for
\* either argument is_version_newer returns what compare_versions_semantic
\* returns for the pair.
C12_ParseFailureFallsBack ==
    ( /\ pc = "is_version_newer"
      /\ packaging_installed
      /\ ParseFails )
        => returned = compare_versions_semantic(latest_arg, current_arg)

\* C13: is_version_newer returns for every pair what it returns for that
\* pair in an execution that differs only in whether the packaging library
\* is installed.
C13_LibraryIndependent ==
    pc = "is_version_newer" =>
        returned = is_version_newer(latest_arg, current_arg, ~ packaging_installed)

(***************************************************************************)
(* Direct calls of the functions of one version string: is_valid_version,  *)
(* normalize_version and split_version_parts.                              *)
(***************************************************************************)
\* A digit followed by each token is_valid_version rejects, and two strings
\* that hold a token in another case.
TokenSamples ==
    { << "1", "o", "n", "l", "y" >>,
      << "1", "l", "a", "t", "e", "s", "t" >>,
      << "1", "c", "u", "r", "r", "e", "n", "t" >>,
      << "1", "v", "e", "r", "s", "i", "o", "n" >>,
      << "1", "u", "n", "k", "n", "o", "w", "n" >>,
      << "1", "n", "u", "l", "l" >>,
      << "1", "n", "o", "n", "e" >>,
      << "1", "d", "e", "s", "c", "r", "i", "p", "t", "i", "o", "n" >>,
      << "1", "n", "a", "m", "e" >>,
      << "1", "t", "i", "t", "l", "e" >>,
      << "1", "a", "p", "p" >>,
      << "1", "p", "a", "c", "k", "a", "g", "e" >>,
      << "1", "i", "n", "s", "t", "a", "l", "l" >>,
      << "1", "d", "o", "w", "n", "l", "o", "a", "d" >>,
      << "1", "f", "i", "l", "e" >>,
      << "1", "u", "r", "l" >>,
      << "1", "h", "t", "t", "p" >>,
      << "1", "w", "w", "w" >>,
      << "1", "c", "o", "m" >>,
      << "1", "o", "r", "g" >>,
      << "1", ".", "N", "a", "m", "e" >>,
      << "2", ".", "0", "-", "B", "e", "t", "a", ".", "A", "p", "p" >> }

SeparatorSamples ==
    { << "v", "v", "1", ".", "0" >>,
      << "v", "1", ".", "0" >>,
      << "V", "1", ".", "0" >>,
      << "1", "_", "_", "2", "-", "-", "3" >>,
      << "1", "-", "_", "2" >>,
      << "1", ".", "0", "-" >>,
      << "-", "1", ".", "0" >>,
      << "1", ".", "v", "2" >>,
      << "_", "v", "1" >>,
      << "1", ".", "2", ".", "3", ".", "r", "c", "1" >>,
      << "2", "0", "2", "5", ".", "0", "6", ".", "2", "6", ".", "3" >>,
      << "1", ".", ".", "2" >>,
      << "r", "c", "1", ".", "2", "b", ".", "3" >>,
      << "1", "2", "a", "3", ".", "4" >> }

\* The strings passed as the one argument.
VersionInputs ==
    GeneratedVersions \cup SampleVersions \cup TokenSamples \cup SeparatorSamples

InitVersion ==
    /\ adb_path = "none"
    /\ packaging_installed = FALSE
    /\ pc = "call"
    /\ ScanIdle
    /\ InstallIdle
    /\ DownloadIdle
    /\ args \in { << v >> : v \in VersionInputs }
    /\ returned = FALSE

\* self.is_valid_version(version_str)
CallIsValidVersion ==
    /\ pc = "call"
    /\ pc' = "is_valid_version"
    /\ returned' = is_valid_version(args[1])
    /\ UNCHANGED << download_vars, install_vars,
                    adb_path, packaging_installed, installed_packages, i, buckets,
                    locals, interrupted, answer, exception, args >>

\* self.normalize_version(version)
CallNormalizeVersion ==
    /\ pc = "call"
    /\ pc' = "normalize_version"
    /\ returned' = normalize_version(args[1])
    /\ UNCHANGED << download_vars, install_vars,
                    adb_path, packaging_installed, installed_packages, i, buckets,
                    locals, interrupted, answer, exception, args >>

\* self.split_version_parts(version), a first and a second time.
CallSplitVersionParts ==
    /\ pc \in { "call", "split_version_parts" }
    /\ pc' = IF pc = "call" THEN "split_version_parts" ELSE "split_version_parts_again"
    /\ returned' = split_version_parts(args[1])
    /\ UNCHANGED << download_vars, install_vars,
                    adb_path, packaging_installed, installed_packages, i, buckets,
                    locals, interrupted, answer, exception, args >>

NextVersion == CallIsValidVersion \/ CallNormalizeVersion \/ CallSplitVersionParts

SpecVersion == InitVersion /\ [][NextVersion]_vars

(***************************************************************************)
(* Properties of the functions of one version string, checked under        *)
(* SpecVersion.                                                            *)
(***************************************************************************)
version_arg == args[1]

BlocklistTokens ==
    { << "o", "n", "l", "y" >>,
      << "l", "a", "t", "e", "s", "t" >>,
      << "c", "u", "r", "r", "e", "n", "t" >>,
      << "v", "e", "r", "s", "i", "o", "n" >>,
      << "u", "n", "k", "n", "o", "w", "n" >>,
      << "n", "u", "l", "l" >>,
      << "n", "o", "n", "e" >>,
      << "d", "e", "s", "c", "r", "i", "p", "t", "i", "o", "n" >>,
      << "n", "a", "m", "e" >>,
      << "t", "i", "t", "l", "e" >>,
      << "a", "p", "p" >>,
      << "p", "a", "c", "k", "a", "g", "e" >>,
      << "i", "n", "s", "t", "a", "l", "l" >>,
      << "d", "o", "w", "n", "l", "o", "a", "d" >>,
      << "f", "i", "l", "e" >>,
      << "u", "r", "l" >>,
      << "h", "t", "t", "p" >>,
      << "w", "w", "w" >>,
      << "c", "o", "m" >>,
      << "o", "r", "g" >> }

\* The lowercase form of s holds the token t at some position.
HoldsToken(s, t) ==
    \E k \in 1..Len(s) :
        /\ k + Len(t) - 1 <= Len(s)
        /\ \A m \in 1..Len(t) : LowerChar(s[k + m - 1]) = t[m]

\* C14: is_valid_version(s) is True exactly when s has at least 2
\* characters, holds a digit, holds none of the 20 blocklist tokens in its
\* lowercase form, and has at most 20 characters; "only" and "" are invalid
\* and "1.0" is valid.
C14_ValidIffFourRules ==
    pc = "is_valid_version" =>
        /\ returned = ( /\ Len(version_arg) >= 2
                        /\ \E k \in 1..Len(version_arg) : version_arg[k] \in DigitChars
                        /\ \A t \in BlocklistTokens : ~ HoldsToken(version_arg, t)
                        /\ Len(version_arg) <= 20 )
        /\ version_arg = << "o", "n", "l", "y" >> => returned = FALSE
        /\ version_arg = << >> => returned = FALSE
        /\ version_arg = << "1", ".", "0" >> => returned = TRUE

\* is_valid_version has rejected a string of 21 characters that passes the
\* other three rules.
C14_Witness ==
    /\ pc = "is_valid_version"
    /\ Len(version_arg) = 21
    /\ \A t \in BlocklistTokens : ~ HoldsToken(version_arg, t)
    /\ returned = FALSE

(***************************************************************************)
(* Direct calls of parse_latest_version_from_fdroidcl on texts of up to    *)
(* MaxLines lines.                                                         *)
(***************************************************************************)
\* The most lines of a generated text.
MaxLines == 2

\* Lines of `fdroidcl show` output.
ShowLines ==
    { << "V", "e", "r", "s", "i", "o", "n", ":", " ", "1", ".", "4", ".", "2", " ", "(", "9", "9", ")" >>,
      << "O", "t", "h", "e", "r", ":", " ", "x" >>,
      << "V", "e", "r", "s", "i", "o", "n", ":", " ", "1", "_", "0" >>,
      << "V", "e", "r", "s", "i", "o", "n", ":", " ", "l", "a", "t", "e", "s", "t" >>,
      << "V", "e", "r", "s", "i", "o", "n", ":", " ", "1", ".", "0", "-", "o", "n", "l", "y" >>,
      << "V", "e", "r", "s", "i", "o", "n", ":" >>,
      << "V", "e", "r", "s", "i", "o", "n", ":", " ", "(", "1", "2", ")" >>,
      << "v", "2", ".", "0", ".", "1", " ", "a", "n", "d", " ", "3", ".", "4" >>,
      << "N", "o", " ", "v", "e", "r", "s", "i", "o", "n", " ", "i", "n", "f", "o", " ", "h", "e", "r", "e" >>,
      << "1", "2" >>,
      << "1", ".", "2", ".", "3", ".", "4", ".", "5", ".", "6", ".", "7" >>,
      << " ", " ", "V", "e", "r", "s", "i", "o", "n", ":", " ", "3", ".", "0", " ", "b", "e", "t", "a" >>,
      << "b", "u", "i", "l", "d", " ", "1", "0", " ", "o", "f", " ", "2", ".", "5" >>,
      <<  >>,
      << "V", "e", "r", "s", "i", "o", "n", ":", " ", "7" >>,
      << "V", "e", "r", "s", "i", "o", "n", ":", " ", "2", ".", "0", "(", "3", ")" >> }

\* '\n'.join(lines)
RECURSIVE join_lines(_)
join_lines(lines) ==
    IF lines = << >> THEN << >>
    ELSE IF Len(lines) = 1 THEN lines[1]
    ELSE lines[1] \o << "\n" >> \o join_lines(Tail(lines))

\* The texts passed as output.
ShowTexts ==
    ShowOutputs \cup
    { join_lines(lines) : lines \in UNION { [ 1..n -> ShowLines ] : n \in 0..MaxLines } }

InitExtract ==
    /\ adb_path = "none"
    /\ packaging_installed = FALSE
    /\ pc = "call"
    /\ ScanIdle
    /\ InstallIdle
    /\ DownloadIdle
    /\ args \in { << output >> : output \in ShowTexts }
    /\ returned = FALSE

\* self.parse_latest_version_from_fdroidcl(output): it returns the version
\* or None, or the IndexError of line 83 leaves it.
CallParseLatestVersion ==
    /\ pc = "call"
    /\ \E found \in { parse_latest_version_from_fdroidcl(args[1]) } :
           IF found = IndexError
           THEN /\ pc' = "raised"
                /\ exception' = "IndexError"
                /\ UNCHANGED returned
           ELSE /\ pc' = "parse_latest_version_from_fdroidcl"
                /\ returned' = found
                /\ UNCHANGED exception
    /\ UNCHANGED << download_vars, install_vars,
                    adb_path, packaging_installed, installed_packages, i, buckets,
                    locals, interrupted, answer, args >>

NextExtract == CallParseLatestVersion

SpecExtract == InitExtract /\ [][NextExtract]_vars

(***************************************************************************)
(* Properties of parse_latest_version_from_fdroidcl, checked under         *)
(* SpecExtract.                                                            *)
(***************************************************************************)
output_arg == args[1]

\* The lines of the text, and a line without its surrounding whitespace.
LinesOf(text) == str_split(text, "\n")

Trimmed(line) == str_strip(line)

\* The line starts with the label `Version:`.
Labelled(line) ==
    /\ Len(Trimmed(line)) >= Len(VersionLabel)
    /\ \A k \in 1..Len(VersionLabel) : Trimmed(line)[k] = VersionLabel[k]

\* What follows the label, up to the first "(".
BeforeParen(line) ==
    LET rest == SubSeq(Trimmed(line), Len(VersionLabel) + 1, Len(Trimmed(line)))
        parens == { k \in 1..Len(rest) : rest[k] = "(" }
    IN  IF parens = {} THEN rest
        ELSE SubSeq(rest, 1, (CHOOSE k \in parens : \A m \in parens : k <= m) - 1)

\* The first whitespace-delimited token of s, << >> when s holds none.
FirstToken(s) ==
    LET solid == { k \in 1..Len(s) : s[k] \notin { " ", "\n" } }
    IN  IF solid = {} THEN << >>
        ELSE LET a == CHOOSE k \in solid : \A m \in solid : k <= m
                 b == CHOOSE k \in a..Len(s) :
                          /\ \A m \in a..k : m \in solid
                          /\ (k + 1) \notin solid
             IN  SubSeq(s, a, b)

\* The candidate of a labelled line.
CandidateOf(line) == FirstToken(BeforeParen(line))

Letters == UpperChars \cup LowerChars

StrictTokens ==
    { << "o", "n", "l", "y" >>, << "l", "a", "t", "e", "s", "t" >>,
      << "c", "u", "r", "r", "e", "n", "t" >>, << "v", "e", "r", "s", "i", "o", "n" >>,
      << "u", "n", "k", "n", "o", "w", "n" >>, << "n", "u", "l", "l" >>,
      << "n", "o", "n", "e" >> }

\* A candidate made of the characters of allowed only, with a digit and
\* without a token of the strict pass.
WellFormed(v, allowed) ==
    /\ v # << >>
    /\ \A k \in 1..Len(v) : v[k] \in allowed
    /\ \E k \in 1..Len(v) : v[k] \in DigitChars
    /\ \A t \in StrictTokens : ~ HoldsToken(v, t)

\* The value returned is the candidate of a labelled line of the text and
\* is made of the characters of allowed.
ReturnedIsCandidate(allowed) ==
    /\ WellFormed(returned, allowed)
    /\ \E k \in 1..Len(LinesOf(output_arg)) :
           /\ Labelled(LinesOf(output_arg)[k])
           /\ returned = CandidateOf(LinesOf(output_arg)[k])

\* The call returned a value of the strict pass.
StrictReturned ==
    /\ pc = "parse_latest_version_from_fdroidcl"
    /\ output_arg # << >>
    /\ strict_pass(LinesOf(output_arg)) # IndexError
    /\ strict_pass(LinesOf(output_arg)) # << >>

\* 'Version: 1.4.2 (99)\nOther: x'
ShowExample ==
    << "V", "e", "r", "s", "i", "o", "n", ":", " ", "1", ".", "4", ".", "2", " ",
       "(", "9", "9", ")", "\n", "O", "t", "h", "e", "r", ":", " ", "x" >>

\* C15 as stated: every value returned from the strict pass is the first
\* whitespace-delimited token of the text after `Version:` with everything
\* from the first "(" dropped, consists only of digits, letters, dots and
\* dashes, holds a digit and none of the seven tokens.
C15_StrictValueAsStated ==
    StrictReturned => ReturnedIsCandidate(DigitChars \cup Letters \cup { ".", "-" })

\* C15: every value returned from the strict pass is the first
\* whitespace-delimited token of the text after `Version:` with everything
\* from the first "(" dropped, consists only of digits, letters, underscores,
\* dots and dashes, holds a digit and none of the seven tokens in its
\* lowercase form; 'Version: 1.4.2 (99)\nOther: x' yields "1.4.2".
C15_StrictValue ==
    /\ StrictReturned =>
           ReturnedIsCandidate(DigitChars \cup Letters \cup { "_", ".", "-" })
    /\ (pc = "parse_latest_version_from_fdroidcl" /\ output_arg = ShowExample) =>
           returned = << "1", ".", "4", ".", "2" >>

\* The strict pass has returned the version of a line that carries a
\* version code in parentheses.
C15_Witness ==
    /\ StrictReturned
    /\ output_arg = ShowExample
    /\ returned = << "1", ".", "4", ".", "2" >>

\* The characters the strict pass admits in a candidate.
StrictChars == DigitChars \cup Letters \cup { "_", ".", "-" }

\* The lines of the text whose `Version:` label is followed by an accepted
\* candidate.
AcceptedLines ==
    { k \in 1..Len(LinesOf(output_arg)) :
        /\ Labelled(LinesOf(output_arg)[k])
        /\ WellFormed(CandidateOf(LinesOf(output_arg)[k]), StrictChars) }

EarliestAccepted == CHOOSE k \in AcceptedLines : \A m \in AcceptedLines : k <= m

\* C16: when at least one `Version:` line yields an accepted candidate, the
\* call returns the candidate of the earliest such line, whatever
\* version-like text stands on the other lines.
C16_StrictFirst ==
    (pc # "call" /\ AcceptedLines # {}) =>
        /\ pc = "parse_latest_version_from_fdroidcl"
        /\ returned = CandidateOf(LinesOf(output_arg)[EarliestAccepted])

\* The matches of the loose pattern in the lines, top to bottom and left to
\* right within a line.
RECURSIVE LooseMatches(_)
LooseMatches(lines) ==
    IF lines = << >> THEN << >>
    ELSE find_versions(lines[1], 1) \o LooseMatches(Tail(lines))

\* The four filters of the loose pass.
PassesLoose(v) ==
    /\ Len(v) >= 3
    /\ \E k \in 1..Len(v) : v[k] = "."
    /\ Cardinality({ k \in 1..Len(v) : v[k] = "." }) <= 5
    /\ \E k \in 1..Len(v) : v[k] \in DigitChars

\* r is the first of the matches that passes the four filters, None when
\* none passes.
FirstPassing(matches, r) ==
    IF \A n \in 1..Len(matches) : ~ PassesLoose(matches[n])
    THEN r = None
    ELSE \E n \in 1..Len(matches) :
             /\ r = matches[n]
             /\ PassesLoose(matches[n])
             /\ \A m \in 1..(n - 1) : ~ PassesLoose(matches[m])

\* The call returned and no `Version:` line yielded an accepted candidate.
LooseReturned ==
    /\ pc = "parse_latest_version_from_fdroidcl"
    /\ output_arg # << >>
    /\ AcceptedLines = {}

\* C17: when the strict pass accepts no candidate, the value returned is the
\* first match of the loose pattern (lines top to bottom, left to right
\* within a line) that has at least 3 characters, holds a ".", holds at most
\* 5 dots and holds a digit; a match failing one of the four is not returned.
C17_LooseFirst ==
    LooseReturned => FirstPassing(LooseMatches(LinesOf(output_arg)), returned)

\* The loose pass has returned a match that stands after a match it dropped.
C17_Witness ==
    /\ LooseReturned
    /\ returned # None
    /\ LooseMatches(LinesOf(output_arg))[1] # returned
    /\ ~ PassesLoose(LooseMatches(LinesOf(output_arg))[1])

\* C18: the call returns None, and does not raise, for every text in which no
\* candidate survives either pass: the empty text, a text without a
\* version-like substring such as 'No version info here', and a text whose
\* `Version:` line has an empty value or a value that begins with "(".
C18_NoneWhenNothingSurvives ==
    ( /\ pc # "call"
      /\ AcceptedLines = {}
      /\ \A n \in 1..Len(LooseMatches(LinesOf(output_arg))) :
             ~ PassesLoose(LooseMatches(LinesOf(output_arg))[n]) )
        => ( pc = "parse_latest_version_from_fdroidcl" /\ returned = None )

(***************************************************************************)
(* Properties of normalize_version and split_version_parts, checked under  *)
(* SpecVersion.                                                            *)
(***************************************************************************)
Separators == { "-", "_" }

\* s without one leading "v".
DropOneV(s) == IF s # << >> /\ s[1] = "v" THEN Tail(s) ELSE s

\* The positions of s that open a run of separators or hold another
\* character, in order.
KeptPositions(s) ==
    SelectSeq([ k \in 1..Len(s) |-> k ],
              LAMBDA k : s[k] \notin Separators \/ k = 1 \/ s[k - 1] \notin Separators)

\* s with every maximal run of "-" and "_" replaced by one "." and every
\* other character unchanged.
RunsReplaced(s) ==
    [ n \in 1..Len(KeptPositions(s)) |->
        IF s[KeptPositions(s)[n]] \in Separators THEN "." ELSE s[KeptPositions(s)[n]] ]

\* C19: normalize_version(s) is s with every maximal run of "-" and "_"
\* replaced by exactly one "." and with at most one leading "v" removed (the
\* second "v" of "vv1.0" is kept); every other character is unchanged.
C19_NormalizeOneV ==
    pc = "normalize_version" => returned = RunsReplaced(DropOneV(version_arg))

\* The segments of s between the dots.
RECURSIVE Segments(_)
Segments(s) ==
    IF \A k \in 1..Len(s) : s[k] # "." THEN << s >>
    ELSE LET dot == CHOOSE k \in 1..Len(s) : s[k] = "." /\ \A m \in 1..(k - 1) : s[m] # "."
         IN  << SubSeq(s, 1, dot - 1) >> \o Segments(SubSeq(s, dot + 1, Len(s)))

\* The length of the leading digit run of a segment.
LeadingDigits(seg) ==
    CHOOSE n \in 0..Len(seg) :
        /\ \A k \in 1..n : seg[k] \in DigitChars
        /\ (n < Len(seg) => seg[n + 1] \notin DigitChars)

\* The integer written by a run of digits.
RECURSIVE IntOf(_)
IntOf(digits) ==
    IF digits = << >> THEN 0
    ELSE 10 * IntOf(SubSeq(digits, 1, Len(digits) - 1)) + DigitValue[digits[Len(digits)]]

\* What a segment contributes to numeric and to text.
NumericPart(seg) ==
    IF LeadingDigits(seg) > 0 THEN << IntOf(SubSeq(seg, 1, LeadingDigits(seg))) >> ELSE << >>

TextPart(seg) ==
    IF LeadingDigits(seg) = 0 THEN << seg >>
    ELSE IF LeadingDigits(seg) < Len(seg)
    THEN << SubSeq(seg, LeadingDigits(seg) + 1, Len(seg)) >>
    ELSE << >>

RECURSIVE Contributions(_, _)
Contributions(Part(_), segs) ==
    IF segs = << >> THEN << >> ELSE Part(segs[1]) \o Contributions(Part, Tail(segs))

\* '1.2.3.rc1' and '2025.06.26.3'
Str123rc1Dotted == << "1", ".", "2", ".", "3", ".", "r", "c", "1" >>

StrDate3 == << "2", "0", "2", "5", ".", "0", "6", ".", "2", "6", ".", "3" >>

\* The parts returned are the contributions of the segments, in order.
PartsOfSegments ==
    pc \in { "split_version_parts", "split_version_parts_again" } =>
        /\ returned.numeric = Contributions(NumericPart, Segments(version_arg))
        /\ returned.text = Contributions(TextPart, Segments(version_arg))
        /\ version_arg = Str123rc1Dotted =>
               returned = [ numeric |-> << 1, 2, 3 >>, text |-> << << "r", "c", "1" >> >> ]
        /\ version_arg = StrDate3 =>
               returned = [ numeric |-> << 2025, 6, 26, 3 >>, text |-> << >> ]

\* The second call returns what the first returned and the string is the
\* one passed.
SameOnSecondCall ==
    (pc = "split_version_parts" /\ pc' = "split_version_parts_again")
        => (returned' = returned /\ args' = args)

\* C20: split_version_parts(s) splits s on "." and, per segment in order, a
\* segment with a leading digit run gives that run as an integer to numeric
\* and its non-empty remainder to text, a segment without a leading digit
\* gives the whole segment to text; a second call on the same string gives
\* the same parts and leaves s as it was; "1.2.3.rc1" gives [1,2,3] and
\* ["rc1"], "2025.06.26.3" gives [2025,6,26,3] and [].
C20_SplitParts == [] PartsOfSegments /\ [][SameOnSecondCall]_vars

\* split_version_parts has been called twice on a string that has a segment
\* with a digit run followed by text and a segment without a leading digit.
C20_Witness ==
    /\ pc = "split_version_parts_again"
    /\ returned.numeric # << >>
    /\ Len(returned.text) >= 2
    /\ \E k \in 1..Len(Segments(version_arg)) :
           /\ LeadingDigits(Segments(version_arg)[k]) > 0
           /\ LeadingDigits(Segments(version_arg)[k]) < Len(Segments(version_arg)[k])

(***************************************************************************)
(* Direct calls of is_questionable_update on pairs of versions whose major *)
(* is at most MaxMajor.                                                    *)
(***************************************************************************)
\* The greatest one-digit major of a generated version.
MaxMajor == 5

MajorDigits == << "0", "1", "2", "3", "4", "5", "6", "7", "8", "9" >>

\* What follows the major digit of a generated version.
VersionTails ==
    { << >>,
      << ".", "0" >>,
      << ".", "0", ".", "0" >>,
      << ".", "2", ".", "0" >>,
      << ".", "0", "-", "b", "e", "t", "a" >>,
      << ".", "0", "-", "B", "E", "T", "A" >>,
      << ".", "0", "o", "n", "l", "y" >>,
      << ".", "1", "d", "e", "v" >>,
      << ".", "0", "-", "t", "e", "s", "t" >>,
      << ".", "d", "e", "b", "u", "g" >>,
      << ".", "0", "a", "l", "p", "h", "a" >>,
      << "r", "c", ".", "1" >>,
      << "-", "0", "6" >>,
      << " ", ".", "1" >>,
      << "_", "0", ".", "1" >> }

\* Versions that are not a digit followed by a tail.
OddVersions ==
    { << >>,
      << "v", "1", ".", "0" >>,
      << "a", ".", "1" >>,
      << ".", "5" >>,
      << "-", "1", ".", "0" >>,
      << "1", "0", ".", "0" >>,
      << "2", "0", "2", "5", ".", "0", "6", ".", "2", "6" >>,
      << "b", "e", "t", "a" >>,
      << " ", "3", ".", "0" >>,
      << "1", "_", "_", "0", ".", "0" >>,
      << "1", "2" >>,
      << "-", ".", "1" >> }

QuestionableInputs ==
    { << MajorDigits[m + 1] >> \o tail : m \in 0..MaxMajor, tail \in VersionTails }
        \cup OddVersions

InitQuestionable ==
    /\ adb_path = "none"
    /\ packaging_installed = FALSE
    /\ pc = "call"
    /\ ScanIdle
    /\ InstallIdle
    /\ DownloadIdle
    /\ args \in QuestionableInputs \X QuestionableInputs
    /\ returned = FALSE

\* self.is_questionable_update(current, latest)
CallIsQuestionableUpdate ==
    /\ pc = "call"
    /\ pc' = "is_questionable_update"
    /\ returned' = is_questionable_update(args[1], args[2])
    /\ UNCHANGED << download_vars, install_vars,
                    adb_path, packaging_installed, installed_packages, i, buckets,
                    locals, interrupted, answer, exception, args >>

NextQuestionable == CallIsQuestionableUpdate

SpecQuestionable == InitQuestionable /\ [][NextQuestionable]_vars

(***************************************************************************)
(* Properties of is_questionable_update, checked under SpecQuestionable.   *)
(***************************************************************************)
checked_current == args[1]

checked_latest == args[2]

\* What stands before the first "." of v.
FirstSegment(v) == Segments(v)[1]

\* The first segment of v is a run of digits.
PlainMajor(v) ==
    /\ FirstSegment(v) # << >>
    /\ \A k \in 1..Len(FirstSegment(v)) : FirstSegment(v)[k] \in DigitChars

MajorOf(v) == IntOf(FirstSegment(v))

SuspiciousTokens ==
    { << "o", "n", "l", "y" >>, << "d", "e", "v" >>, << "t", "e", "s", "t" >>,
      << "d", "e", "b", "u", "g" >>, << "a", "l", "p", "h", "a" >>,
      << "b", "e", "t", "a" >> }

Str100 == << "1", ".", "0", ".", "0" >>

Str400 == << "4", ".", "0", ".", "0" >>

\* C21: when the majors of both versions parse as integers,
\* is_questionable_update(current, latest) is True exactly when
\* latest_major - current_major > 2, or latest_major < current_major, or the
\* lowercase form of latest holds one of only/dev/test/debug/alpha/beta;
\* ("1.0.0", "4.0.0") is questionable and ("1.0.0", "1.2.0") is not.
C21_QuestionableIffThreeRules ==
    pc = "is_questionable_update" =>
        /\ (PlainMajor(checked_current) /\ PlainMajor(checked_latest)) =>
               returned = ( \/ MajorOf(checked_latest) - MajorOf(checked_current) > 2
                            \/ MajorOf(checked_latest) < MajorOf(checked_current)
                            \/ \E t \in SuspiciousTokens : HoldsToken(checked_latest, t) )
        /\ (checked_current = Str100 /\ checked_latest = Str400) => returned = TRUE
        /\ (checked_current = Str100 /\ checked_latest = Str120) => returned = FALSE

\* A major jump of exactly 2 with a clean suffix has been found valid.
C21_Witness ==
    /\ pc = "is_questionable_update"
    /\ PlainMajor(checked_current) /\ PlainMajor(checked_latest)
    /\ MajorOf(checked_latest) - MajorOf(checked_current) = 2
    /\ returned = FALSE

\* The leading run of digits of the first segment of v.
LeadingRun(v) == SubSeq(FirstSegment(v), 1, LeadingDigits(FirstSegment(v)))

Str2rc1 == << "2", "r", "c", ".", "1" >>

\* C22: the major of each version is the leading run of digits before the
\* first "." read as an integer; the call returns True (and does not raise)
\* when either version has no such run, and characters that follow the run
\* inside the first segment ("2rc.1", "2025-06") do not make the version
\* unparseable: the three rules then decide.
C22_MajorIsLeadingRun ==
    pc = "is_questionable_update" =>
        IF LeadingRun(checked_current) = << >> \/ LeadingRun(checked_latest) = << >>
        THEN returned = TRUE
        ELSE returned =
                 ( \/ IntOf(LeadingRun(checked_latest)) - IntOf(LeadingRun(checked_current)) > 2
                   \/ IntOf(LeadingRun(checked_latest)) < IntOf(LeadingRun(checked_current))
                   \/ \E t \in SuspiciousTokens : HoldsToken(checked_latest, t) )

(***************************************************************************)
(* The scan end to end, checked under Spec.                                *)
(***************************************************************************)
Str210 == << "2", ".", "1", ".", "0" >>

Str230Beta == << "2", ".", "3", ".", "0", "-", "b", "e", "t", "a" >>

\* The records of a package at 2.1.0 for which the repository shows
\* 2.3.0-beta.
BetaRecords(bucket) ==
    { r \in Records(bucket) :
        r.current_version = Str210 /\ r.latest_version = Str230Beta }

\* The inner try block has run to its end for a package at 2.1.0, fdroidcl
\* having printed 'Version: 2.3.0-beta (12)\n'.
BetaLookup ==
    /\ pc = "fdroidcl"
    /\ current_version = Str210
    /\ result' = Completed(0, ShowV230Beta)
    /\ pc' \in LoopEnds \ { "continue_timeout", "continue_exception" }

\* The extraction yields 2.3.0-beta and the record is appended to
\* questionable_updates only.
BetaLookupLands ==
    BetaLookup =>
        /\ pc' = "checked"
        /\ latest_version' = Str230Beta
        /\ questionable_updates' =
               Append(questionable_updates,
                      [ package |-> installed_packages[i],
                        current_version |-> Str210,
                        latest_version |-> Str230Beta ])
        /\ updates_available' = updates_available

\* No such record is in updates_available, except in the list returned after
\* click.confirm answered yes.
BetaOnlyOptedIn ==
    /\ (pc # "returned" \/ answer # "yes") => BetaRecords(updates_available) = {}
    /\ (pc = "returned" /\ answer = "yes") =>
           BetaRecords(updates_available) = BetaRecords(questionable_updates)

\* C23: for a package at 2.1.0 and the repository text
\* 'Version: 2.3.0-beta (12)\n', the extraction yields 2.3.0-beta, both
\* versions are valid, the latest is newer and questionable, the record goes
\* to questionable_updates, and it is in the list returned only when
\* click.confirm answered yes.
C23_BetaEndToEnd ==
    /\ [] ( /\ parse_latest_version_from_fdroidcl(ShowV230Beta) = Str230Beta
            /\ is_valid_version(Str210) /\ is_valid_version(Str230Beta)
            /\ is_version_newer(Str230Beta, Str210, packaging_installed)
            /\ is_questionable_update(Str210, Str230Beta)
            /\ BetaOnlyOptedIn )
    /\ [][BetaLookupLands]_vars

\* The scan has returned without the 2.1.0 -> 2.3.0-beta record it holds in
\* questionable_updates, click.confirm having answered no.
C23_Witness ==
    /\ pc = "returned"
    /\ answer = "no"
    /\ BetaRecords(questionable_updates) # {}
    /\ BetaRecords(updates_available) = {}

(***************************************************************************)
(* install_package and update_device_packages: the commands that run       *)
(* `fdroidcl install`.  fdroidcl reads the device to install on from the   *)
(* environment variable ANDROID_SERIAL of the process that starts it.      *)
(***************************************************************************)
\* A value of self.mappings: a str, or a dict of which id is
\* resolved.get('package_id', resolved.get('id', '')).
MappingStr(id) == [ kind |-> "str", id |-> id ]

MappingDict(id) == [ kind |-> "dict", id |-> id ]

\* The `if isinstance(resolved, dict)` statement: the package id returned
\* for a mapping value, << >> when control falls through.
mapped_id(value) ==
    IF value.kind = "dict"
    THEN IF value.id # << >> THEN << value.id >> ELSE << >>
    ELSE << value.id >>

\* The keys of which the lowercase form holds the lowercase form of
\* package_name.
partial_matches(maps, package_name) ==
    { name \in DOMAIN maps : str_contains(str_lower(name), str_lower(package_name)) }

\* The partial matches of resolve_package_name: the id of the single match,
\* None when several keys match, package_name when the search gives nothing.
resolve_partial(maps, package_name, matches) ==
    IF Cardinality(matches) = 1
    THEN LET found == mapped_id(maps[CHOOSE name \in matches : TRUE])
         IN  IF found # << >> THEN found[1] ELSE package_name
    ELSE IF Cardinality(matches) > 1 THEN None
    ELSE package_name

\* resolve_package_name with the first of several partial matches taken.
resolve_package_name_first_match(maps, package_name) ==
    IF str_contains(package_name, << "." >>) THEN package_name
    ELSE IF DOMAIN maps = {} THEN package_name
    ELSE IF package_name \in DOMAIN maps /\ mapped_id(maps[package_name]) # << >>
    THEN mapped_id(maps[package_name])[1]
    ELSE IF partial_matches(maps, package_name) = {} THEN package_name
    ELSE maps[CHOOSE name \in partial_matches(maps, package_name) : TRUE].id

resolve_package_name(maps, package_name) ==
    IF str_contains(package_name, << "." >>) THEN package_name
    ELSE IF DOMAIN maps = {} THEN package_name
    ELSE IF package_name \in DOMAIN maps /\ mapped_id(maps[package_name]) # << >>
    THEN mapped_id(maps[package_name])[1]
    ELSE resolve_partial(maps, package_name, partial_matches(maps, package_name))

\* A value of the mappings of foss-pm.py as resolve_package_name returns it:
\* the str, or the dict itself, for which DictValue stands.
DictValue == << "dict" >>

foss_value(value) == IF value.kind = "str" THEN value.id ELSE DictValue

\* FOSSPackageManager.resolve_package_name
foss_resolve_package_name(maps, package_name) ==
    IF str_contains(package_name, << "." >>) THEN package_name
    ELSE IF package_name \in DOMAIN maps THEN foss_value(maps[package_name])
    ELSE IF Cardinality(partial_matches(maps, package_name)) = 1
    THEN foss_value(maps[CHOOSE name \in partial_matches(maps, package_name) : TRUE])
    ELSE IF Cardinality(partial_matches(maps, package_name)) > 1 THEN None
    ELSE package_name

\* `if device_id: os.environ['ANDROID_SERIAL'] = device_id`; "none" stands
\* for a device_id of None and for an unset variable.
set_android_serial(serial, device_id) ==
    IF device_id # "none" THEN device_id ELSE serial

\* One run of `fdroidcl install`: the package, the ANDROID_SERIAL the run
\* inherits and the device_id of the call that starts it.
install_run(package, serial, device_id) ==
    [ package |-> package, serial |-> serial, device_id |-> device_id ]

failed_package(package, reason) == [ package |-> package, reason |-> reason ]

\* A mappings file with str and dict values, one dict without an id.
SomeMappings ==
    (<< "f", "i", "r", "e", "f", "o", "x" >>
        :> MappingStr(<< "o", "r", "g", ".", "f", "o", "x" >>))
    @@ (<< "f", "i", "r", "e", "w", "a", "l", "l" >>
        :> MappingStr(<< "n", "e", "t", ".", "w", "a", "l", "l" >>))
    @@ (<< "v", "l", "c" >> :> MappingStr(<< "o", "r", "g", ".", "v", "l", "c" >>))
    @@ (<< "v", "n", "c" >> :> MappingDict(<< "c", "o", "m", ".", "v", "n", "c" >>))
    @@ (<< "b", "a", "r", "e" >> :> MappingDict(<< >>))

\* The names given to install_package.
FriendlyNames ==
    { << "f", "i", "r", "e" >>,
      << "f", "i", "r", "e", "f", "o", "x" >>,
      << "f", "o", "x" >>,
      << "V" >>,
      << "v", "n", "c" >>,
      << "b", "a", "r", "e" >>,
      << "z", "e", "d" >>,
      << "o", "r", "g", ".", "f", "o", "x" >>,
      << "a", ".", "b" >> }

\* device_id: None, or the serial of a device.
DeviceArgs == { "none", "A", "B" }

\* What subprocess.run(['fdroidcl', 'install', ...]) does in install_package
\* (check=True) and in update_device_packages (check=True, timeout=120).
InstallOutcomes == { "ok", "CalledProcessError", "FileNotFoundError" }

UpdateOutcomes == InstallOutcomes \cup { "TimeoutExpired" }

\* The most calls of install_package and update_device_packages in a run,
\* and the most records get_available_updates returns.
MaxCalls == 2

MaxPlan == 2

\* The packages get_available_updates finds updates of.
PlanPackages ==
    { << "o", "r", "g", ".", "f", "o", "x" >>,
      << "n", "e", "t", ".", "w", "a", "l", "l" >>,
      << "o", "r", "g", ".", "v", "l", "c" >> }

\* The lists get_available_updates returns: records of distinct packages.
Plans ==
    { plan \in UNION { [ 1..n -> PlanPackages ] : n \in 0..MaxPlan } :
        \A j, k \in 1..Len(plan) : j # k => plan[j] # plan[k] }

InitInstall ==
    /\ adb_path = "adb"
    /\ packaging_installed = FALSE
    /\ pc = "idle"
    /\ ScanIdle
    /\ args = << >>
    /\ returned = FALSE
    /\ android_serial = "none"
    /\ installs = << >>
    /\ mappings \in { << >>, SomeMappings }
    /\ DownloadIdle
    /\ updates = << >>
    /\ success_count = 0
    /\ failed_packages = << >>
    /\ calls = 0

scan_vars ==
    << adb_path, packaging_installed, installed_packages, buckets, locals, interrupted >>

\* Where a call is made from: before the first call, or after a call has
\* returned or raised.
BetweenCalls == { "idle", "install_package", "update_device_packages", "raised" }

\* self.install_package(package_name, device_id)
InstallPackage ==
    /\ pc \in BetweenCalls
    /\ calls < MaxCalls
    /\ \E package_name \in FriendlyNames, device_id \in DeviceArgs,
          outcome \in InstallOutcomes :
        \E package_id \in { resolve_package_name(mappings, package_name) } :
            /\ args' = << package_name, device_id >>
            /\ IF package_id = None \/ package_id = << >>
               THEN /\ returned' = FALSE
                    /\ installs' = << >>
                    /\ UNCHANGED android_serial
               ELSE /\ android_serial' = set_android_serial(android_serial, device_id)
                    /\ installs' = << install_run(package_id, android_serial', device_id) >>
                    /\ returned' = (outcome = "ok")
    /\ pc' = "install_package"
    /\ calls' = calls + 1
    /\ exception' = "none"
    /\ answer' = "none"
    /\ UNCHANGED << download_vars, scan_vars, i, mappings, updates, success_count, failed_packages >>

\* FOSSPackageManager.install_package(package_name, device_id).  It catches
\* CalledProcessError only; a dict given to subprocess.run as an argument is
\* a TypeError before anything runs.
FossInstallPackage ==
    /\ pc \in BetweenCalls
    /\ calls < MaxCalls
    /\ \E package_name \in FriendlyNames, device_id \in DeviceArgs,
          outcome \in InstallOutcomes :
        \E package_id \in { foss_resolve_package_name(mappings, package_name) } :
            /\ args' = << package_name, device_id >>
            /\ IF package_id = None \/ package_id = << >>
               THEN /\ returned' = FALSE
                    /\ installs' = << >>
                    /\ pc' = "install_package"
                    /\ exception' = "none"
                    /\ UNCHANGED android_serial
               ELSE /\ android_serial' = set_android_serial(android_serial, device_id)
                    /\ IF package_id = DictValue
                       THEN /\ installs' = << >>
                            /\ pc' = "raised"
                            /\ exception' = "TypeError"
                            /\ UNCHANGED returned
                       ELSE /\ installs' =
                                   << install_run(package_id, android_serial', device_id) >>
                            /\ pc' = IF outcome = "FileNotFoundError"
                                     THEN "raised" ELSE "install_package"
                            /\ exception' = IF outcome = "FileNotFoundError"
                                            THEN "FileNotFoundError" ELSE "none"
                            /\ returned' = IF outcome = "FileNotFoundError"
                                           THEN returned ELSE (outcome = "ok")
    /\ calls' = calls + 1
    /\ answer' = "none"
    /\ UNCHANGED << download_vars, scan_vars, i, mappings, updates, success_count, failed_packages >>

\* `if not updates: ... return True`, then `if not auto_update:` before the
\* loop.
after_scan(found, auto_update) ==
    IF found = << >> THEN "update_device_packages"
    ELSE IF auto_update THEN "install"
    ELSE "confirm_update"

\* self.update_device_packages(device_id, auto_update) up to the prompt:
\* the scan, the return when it found nothing, the table.
UpdateDevicePackages ==
    /\ pc \in BetweenCalls
    /\ calls < MaxCalls
    /\ \E device_id \in DeviceArgs, auto_update \in BOOLEAN, found \in Plans :
        /\ args' = << device_id, auto_update >>
        /\ updates' = [ k \in 1..Len(found) |->
                          update_info(found[k], << "1", ".", "0" >>, << "1", ".", "1" >>) ]
        /\ pc' = after_scan(found, auto_update)
        /\ returned' = IF pc' = "update_device_packages" THEN TRUE ELSE returned
        /\ calls' = IF pc' = "update_device_packages" THEN calls + 1 ELSE calls
        /\ i' = IF pc' = "install" THEN 1 ELSE 0
    /\ success_count' = 0
    /\ failed_packages' = << >>
    /\ installs' = << >>
    /\ answer' = "none"
    /\ exception' = "none"
    /\ UNCHANGED << download_vars, scan_vars, android_serial, mappings >>

\* An update started whatever click.confirm answered.
after_confirm_any(a) == "install"

\* `if not click.confirm(...): return False`; click.Abort leaves the call.
after_confirm(a) ==
    IF a = "yes" THEN "install"
    ELSE IF a = "no" THEN "update_device_packages"
    ELSE "raised"

\* click.confirm(f"Update {len(updates)} packages?")
ConfirmUpdate ==
    /\ pc = "confirm_update"
    /\ \E a \in { "yes", "no", "Abort" } :
        /\ answer' = a
        /\ pc' = after_confirm(a)
        /\ i' = IF pc' = "install" THEN 1 ELSE 0
        /\ returned' = IF pc' = "update_device_packages" THEN FALSE ELSE returned
        /\ exception' = IF pc' = "raised" THEN "Abort" ELSE exception
        /\ calls' = IF pc' = "install" THEN calls ELSE calls + 1
        /\ updates' = IF pc' = "install" THEN updates ELSE << >>
    /\ UNCHANGED << download_vars, scan_vars, args, android_serial, installs, mappings,
                    success_count, failed_packages >>

\* Where the loop of update_device_packages goes after an install that did
\* not leave it.
after_install == IF i < Len(updates) THEN "install" ELSE "summary"

\* The body of the loop over updates: one `fdroidcl install`.  The locals
\* of update_device_packages end with the call.
InstallUpdate ==
    /\ pc = "install"
    /\ \E outcome \in UpdateOutcomes :
        /\ android_serial' = set_android_serial(android_serial, args[1])
        /\ installs' = Append(installs,
                              install_run(updates[i].package, android_serial', args[1]))
        /\ IF outcome = "FileNotFoundError"
           THEN /\ pc' = "raised"
                /\ exception' = "FileNotFoundError"
                /\ calls' = calls + 1
                /\ i' = 0
                /\ updates' = << >>
                /\ success_count' = 0
                /\ failed_packages' = << >>
           ELSE /\ pc' = after_install
                /\ exception' = exception
                /\ calls' = calls
                /\ i' = i + 1
                /\ updates' = updates
                /\ success_count' =
                       IF outcome = "ok" THEN success_count + 1 ELSE success_count
                /\ failed_packages' =
                       IF outcome = "ok" THEN failed_packages
                       ELSE Append(failed_packages,
                                   failed_package(updates[i].package, outcome))
    /\ UNCHANGED << download_vars, scan_vars, args, returned, answer, mappings >>

\* The summary and `return success_count > 0`.
FinishUpdate ==
    /\ pc = "summary"
    /\ pc' = "update_device_packages"
    /\ returned' = (success_count > 0)
    /\ calls' = calls + 1
    /\ i' = 0
    /\ updates' = << >>
    /\ success_count' = 0
    /\ failed_packages' = << >>
    /\ UNCHANGED << download_vars, scan_vars, args, answer, exception, android_serial, installs,
                    mappings >>

NextInstall ==
    \/ InstallPackage
    \/ FossInstallPackage
    \/ UpdateDevicePackages
    \/ ConfirmUpdate
    \/ InstallUpdate
    \/ FinishUpdate

SpecInstall == InitInstall /\ [][NextInstall]_vars

(***************************************************************************)
(* Properties of install_package and update_device_packages, checked       *)
(* under SpecInstall.                                                      *)
(***************************************************************************)
\* C24: no call leaves behind state of the process that steers a later call:
\* the device every `fdroidcl install` run is aimed at is the device_id of the
\* call that starts it, and none when that call names no device, whatever
\* device an earlier install or update named.
C24_TargetIsArgument ==
    \A k \in 1..Len(installs) : installs[k].serial = installs[k].device_id

(***************************************************************************)
(* The same direct calls in a process without the packaging library, and   *)
(* the order of the fallback comparison, checked under SpecFallback.       *)
(***************************************************************************)
InitFallback ==
    /\ adb_path = "none"
    /\ packaging_installed = FALSE
    /\ pc = "call"
    /\ ScanIdle
    /\ InstallIdle
    /\ DownloadIdle
    /\ args \in VersionArgs \X VersionArgs
    /\ returned = FALSE

SpecFallback == InitFallback /\ [][NextNewer]_vars

\* C25: the fallback comparison is asymmetric: compare_versions_semantic(a, b)
\* and compare_versions_semantic(b, a) are never both True, and neither are
\* is_version_newer(a, b) and is_version_newer(b, a) when the library is not
\* installed.
C25_FallbackAsymmetric ==
    /\ (pc = "compare_versions_semantic" /\ returned) =>
           ~ compare_versions_semantic(current_arg, latest_arg)
    /\ (pc = "is_version_newer" /\ ~ packaging_installed /\ returned) =>
           ~ is_version_newer(current_arg, latest_arg, FALSE)

\* compare_versions_semantic has answered True on the text parts, the
\* numeric parts being equal.
C25_Witness ==
    /\ pc = "compare_versions_semantic"
    /\ returned
    /\ latest_arg = Str123rc2
    /\ current_arg = Str123rc1

\* C26: under the fallback ordering, when the first dot-separated segment of
\* both versions is a run of digits and is_version_newer(latest, current) is
\* True, the major of latest is at least the major of current: the downgrade
\* rule of is_questionable_update does not apply to such a pair.
C26_NewerIsNoDowngrade ==
    ( /\ pc = "is_version_newer"
      /\ ~ packaging_installed
      /\ returned
      /\ PlainMajor(latest_arg) /\ PlainMajor(current_arg) )
        => MajorOf(latest_arg) >= MajorOf(current_arg)

\* The fallback has found a version with a greater major newer.
C26_Witness ==
    /\ pc = "is_version_newer"
    /\ ~ packaging_installed
    /\ returned
    /\ PlainMajor(latest_arg) /\ PlainMajor(current_arg)
    /\ MajorOf(latest_arg) > MajorOf(current_arg)

\* A call of update_device_packages with auto_update false: in progress,
\* returned, or left by the click.Abort of the prompt.
PromptedUpdate ==
    \/ /\ pc \in { "confirm_update", "install", "summary", "update_device_packages" }
       /\ ~ args[2]
    \/ pc = "raised" /\ exception = "Abort"

\* C27: in a call of update_device_packages with auto_update false,
\* `fdroidcl install` has run only if the user has answered yes to the
\* prompt: none has run while the prompt is pending, and none runs in the
\* call when the user declines or when the plan is empty.
C27_NoInstallUnconfirmed ==
    PromptedUpdate => ( /\ installs # << >> => answer = "yes"
                        /\ pc \in { "install", "summary" } => answer = "yes" )

\* The user has declined the plan and the call has returned False with no
\* install run.
C27_Witness ==
    /\ pc = "update_device_packages"
    /\ ~ args[2]
    /\ answer = "no"
    /\ ~ returned
    /\ installs = << >>

\* The runs of the call so far are those of the first records of the plan,
\* one each and in plan order, and each is counted once as a success or as
\* a failure.
AttemptsFollowPlan ==
    pc \in { "install", "summary" } =>
        /\ Len(installs) = IF pc = "summary" THEN Len(updates) ELSE i - 1
        /\ \A k \in 1..Len(installs) : installs[k].package = updates[k].package
        /\ success_count + Len(failed_packages) = Len(installs)

\* An install of the loop is followed by the install of the next record or,
\* after the last record, by the summary.
LoopRunsToTheEnd ==
    pc = "install" => pc' = IF i < Len(updates) THEN "install" ELSE "summary"

\* C28: once the plan is accepted, update_device_packages attempts one
\* install per record of the plan, in plan order and of no other package;
\* no outcome of an install (failure, timeout, installer missing) keeps the
\* loop from the remaining records, and at the summary success_count plus
\* the number of failed packages is the number of records.
C28_EveryRecordAttempted ==
    [] AttemptsFollowPlan /\ [][LoopRunsToTheEnd]_vars

\* package_name is found in key as it is written.
SubstringOf(package_name, key) ==
    \E k \in 0..(Len(key) - Len(package_name)) :
        \A m \in 1..Len(package_name) : key[k + m] = package_name[m]

HasDot(package_name) == \E k \in 1..Len(package_name) : package_name[k] = "."

\* A friendly name that names several mapping keys and is none of them.
Ambiguous(package_name) ==
    /\ ~ HasDot(package_name)
    /\ package_name \notin DOMAIN mappings
    /\ Cardinality({ key \in DOMAIN mappings : SubstringOf(package_name, key) }) > 1

\* C29: when install_package was given a friendly name without `.` that is
\* not a mapping key and is a substring of more than one key,
\* resolve_package_name gives no package and install_package returns False
\* without a run of `fdroidcl install`; a name with `.` in it is resolved to
\* itself and is the package of the one run.
C29_AmbiguousNeverInstalls ==
    pc = "install_package" =>
        /\ Ambiguous(args[1]) =>
              /\ resolve_package_name(mappings, args[1]) = None
              /\ foss_resolve_package_name(mappings, args[1]) = None
              /\ ~ returned
              /\ installs = << >>
        /\ HasDot(args[1]) =>
              /\ resolve_package_name(mappings, args[1]) = args[1]
              /\ foss_resolve_package_name(mappings, args[1]) = args[1]
              /\ Len(installs) = 1
              /\ installs[1].package = args[1]

\* install_package has returned False on an ambiguous name, nothing run.
C29_Witness ==
    /\ pc = "install_package"
    /\ Ambiguous(args[1])
    /\ ~ returned
    /\ installs = << >>

(***************************************************************************)
(* APKDownloader.download_apk: the index of the repository names the file  *)
(* of a package and may give its SHA-256; the file is taken from the cache *)
(* directory or fetched into it.                                           *)
(***************************************************************************)
\* What a file holds: one of two APKs, or the beginning of one.
Contents == { "apk1", "apk2", "part" }

\* sha256_hash.hexdigest() of a file: lowercase hex, one digest per content.
sha256(content) ==
    CASE content = "apk1" -> "1f"
      [] content = "apk2" -> "2e"
      [] OTHER            -> "3d"

\* package.get('hash'): "" when the index gives none, else a digest as the
\* index writes it.
ExpectedHashes == { "", "1f", "2e", "1F" }

\* self._verify_apk(file_path, expected_hash), for what file_path holds.
verify_apk(content, expected_hash) ==
    IF expected_hash = "" THEN TRUE ELSE sha256(content) = expected_hash

AppIds == { "a", "b" }

\* package['apkName'] of the package the index gives for app_id.
apk_name(app_id) == IF app_id = "a" THEN "a.apk" ELSE "b.apk"

\* The cache directory as cache_dir.mkdir(parents=True) makes it.
EmptyCache == [ name \in { apk_name(app_id) : app_id \in AppIds } |-> "absent" ]

NoPackage == [ apkName |-> "none", hash |-> "" ]

InitDownload ==
    /\ adb_path = "none"
    /\ packaging_installed = FALSE
    /\ pc = "idle"
    /\ ScanIdle
    /\ InstallIdle
    /\ args = << >>
    /\ returned = "none"
    /\ cache = EmptyCache
    /\ apk_package = NoPackage
    /\ verified = "none"

\* download_apk(app_id) up to `# Download new file`: the index is fetched,
\* the package selected, and a file found at local_path is verified and
\* returned when it verifies.  The errors before the package is selected
\* (RequestException, app or version not found) all leave as ValueError.
DownloadApk ==
    /\ pc \in { "idle", "download_apk", "raised" }
    /\ \E app_id \in AppIds, index \in { "ok", "RequestException", "ValueError" },
          hash \in ExpectedHashes :
        /\ args' = << app_id >>
        /\ IF index # "ok"
           THEN /\ pc' = "raised"
                /\ exception' = "ValueError"
                /\ apk_package' = NoPackage
                /\ verified' = "none"
                /\ returned' = "none"
           ELSE /\ apk_package' = [ apkName |-> apk_name(app_id), hash |-> hash ]
                /\ exception' = "none"
                /\ verified' =
                       IF cache[apk_name(app_id)] = "absent" THEN "none"
                       ELSE IF verify_apk(cache[apk_name(app_id)], hash) THEN "passed"
                       ELSE "failed"
                /\ pc' = IF verified' = "passed" THEN "download_apk" ELSE "requests_get"
                /\ returned' = IF verified' = "passed" THEN apk_name(app_id) ELSE "none"
    /\ UNCHANGED << scan_vars, install_vars, i, answer, cache >>

\* requests.get(apk_url, stream=True) and the loop that writes the chunks:
\* the request fails and the file is not opened, or the stream breaks after
\* open(local_path, 'wb') and some chunks, or the body is written whole.
\* requests raises RequestException in the first two, which leaves
\* download_apk as ValueError.
FetchApk ==
    /\ pc = "requests_get"
    /\ \/ /\ pc' = "raised"
          /\ exception' = "ValueError"
          /\ UNCHANGED << cache, verified >>
       \/ /\ pc' = "raised"
          /\ exception' = "ValueError"
          /\ cache' = [ cache EXCEPT ![apk_package.apkName] = "part" ]
          /\ verified' = "none"
       \/ \E content \in Contents :
          /\ pc' = "verify"
          /\ cache' = [ cache EXCEPT ![apk_package.apkName] = content ]
          /\ verified' = "none"
          /\ UNCHANGED exception
    /\ UNCHANGED << scan_vars, install_vars, i, answer, args, returned, apk_package >>

\* `# Verify download`: the file that fails is unlinked and ValueError raised.
VerifyDownload ==
    /\ pc = "verify"
    /\ IF verify_apk(cache[apk_package.apkName], apk_package.hash)
       THEN /\ verified' = "passed"
            /\ pc' = "download_apk"
            /\ returned' = apk_package.apkName
            /\ UNCHANGED << cache, exception >>
       ELSE /\ verified' = "failed"
            /\ cache' = [ cache EXCEPT ![apk_package.apkName] = "absent" ]
            /\ pc' = "raised"
            /\ exception' = "ValueError"
            /\ UNCHANGED returned
    /\ UNCHANGED << scan_vars, install_vars, i, answer, args, apk_package >>

NextDownload ==
    \/ DownloadApk
    \/ FetchApk
    \/ VerifyDownload

SpecDownload == InitDownload /\ [][NextDownload]_vars

\* The path download_apk returned is of a file with the SHA-256 the index
\* gave for the package.
ReturnedVerifies ==
    (pc = "download_apk" /\ apk_package.hash # "") =>
        /\ cache[returned] # "absent"
        /\ sha256(cache[returned]) = apk_package.hash

\* A file of the cache is returned without a download only if it verifies;
\* one that does not verify is fetched again; a fetched file that does not
\* verify is unlinked and the call raises.
VerifySteps ==
    /\ (pc \in { "idle", "download_apk", "raised" } /\ pc' = "download_apk")
          => /\ cache' = cache
             /\ cache[returned'] # "absent"
             /\ verify_apk(cache[returned'], apk_package'.hash)
    /\ (pc \in { "idle", "download_apk", "raised" } /\ verified' = "failed")
          => pc' = "requests_get"
    /\ (pc = "verify" /\ verified' = "failed")
          => /\ cache'[apk_package.apkName] = "absent"
             /\ pc' = "raised"

\* When a call has ended, the file it was for is not in the cache if its
\* last verification failed.
NoFailedFileRemains ==
    (pc \in { "download_apk", "raised" } /\ verified = "failed")
        => cache[apk_package.apkName] = "absent"

\* C30: download_apk returns no path to a file with another SHA-256 than
\* the one the index gives; a file of the cache is reused only if it
\* verifies and fetched again if it does not; a fetched file that does not
\* verify is unlinked and the call raises; so when a call has ended, no file
\* that failed its last verification is in the cache under its name.
C30_NoUnverifiedFileKept ==
    [] (ReturnedVerifies /\ NoFailedFileRemains) /\ [][VerifySteps]_vars

====
